---- MODULE Spec2Model ----
(***************************************************************************)
(* Model of the RAG chatbot backend core:                                  *)
(*   - AIGenerator (backend/ai_generator.py): the bounded tool-calling     *)
(*     round protocol of generate_response;                                *)
(*   - SessionManager (backend/session_manager.py): the locked session     *)
(*     store with history trimming and the background cleanup thread.      *)
(* GenSpec drives one generate_response invocation against every          *)
(* behaviour of the remote model and of the tools; StoreSpec drives        *)
(* concurrent callers of the session store and the cleanup thread.         *)
(***************************************************************************)
EXTENDS Integers, Sequences, FiniteSets, TLC

VARIABLES
    \* ---- AIGenerator.generate_response: arguments
    query, conversation_history, tools, tool_manager,
    \* ---- AIGenerator: locals of the call chain
    pc,                 \* position of the invocation
    api_params,         \* api_params of generate_response (base_params below it)
    messages,           \* the list built by _execute_sequential_tools
    current_round,      \* round counter of _execute_sequential_tools
    current_response,   \* response under examination
    block_index,        \* position of the for loop over response.content
    tool_results,       \* tool_results of _execute_single_tool_round
    next_params,        \* next_params of _execute_single_tool_round
    fallback_params,    \* fallback_params of _handle_tool_error
    error,              \* the exception handed to _handle_tool_error
    result,             \* what the invocation gave its caller
    \* ---- the collaborators' records (what a mock client / tool manager sees)
    calls,              \* every client.messages.create call, in order
    executed,           \* every tool_manager.execute_tool call, in order
    responses,          \* every response the tool-advertising calls returned, in order
    \* ---- SessionManager: fields
    max_history,        \* self.max_history
    sessions,           \* self.sessions: session id -> SessionInfo
    key_order,          \* the keys of self.sessions in the order of the dict
    session_counter,    \* self.session_counter
    lock,               \* self._lock: "free" or the thread holding it
    stop_cleanup,       \* self._stop_cleanup (threading.Event)
    \* ---- request threads calling into the store
    tpc,                \* position of each thread inside its call
    top,                \* the call each thread is in, with its arguments
    ret,                \* what the thread's last call returned
    \* ---- the cleanup thread (_cleanup_expired_sessions)
    cpc,                \* position of the cleanup thread
    last_sweep,         \* what the last sweep removed and kept, until the next begins
    \* ---- history of the run, for stating the properties
    ncalls,             \* store calls started so far
    minted,             \* ids returned by create_session, in order
    appended,           \* per id: messages appended since the session's creation
    \* ---- SessionManager: locals of the cleanup thread and of the callers
    expired_sessions,   \* expired_sessions of _cleanup_expired_sessions (its ids; their order is that of the dict)
    totals,             \* total_sessions, total_messages of get_session_stats
    \* ---- the caller of shutdown (the application's shutdown handler)
    shutdown_pc,        \* position of the handler inside shutdown
    nshutdowns,         \* shutdown calls started so far
    \* ---- one AIGenerator used by two invocations at once: the objects
    dicts,              \* the dict objects: address -> key -> value
    lists,              \* the list objects: address -> elements
    inv,                \* per invocation: its position and its local names
    sent                \* per invocation: what client.messages.create was given

genVars == <<query, conversation_history, tools, tool_manager, pc, api_params,
             messages, current_round, current_response, block_index,
             tool_results, next_params, fallback_params, error, result,
             calls, executed, responses>>

storeVars == <<max_history, sessions, key_order, session_counter, lock, stop_cleanup,
               tpc, top, ret, cpc, last_sweep, ncalls, minted, appended>>

lockVars == <<expired_sessions, totals, shutdown_pc, nshutdowns>>

pairVars == <<dicts, lists, inv, sent>>

fineVars == <<lockVars, pairVars>>

vars == <<genVars, storeVars, fineVars>>

----------------------------------------------------------------------------
(* Bounds of the model *)

\* most content blocks a model response carries
MaxBlocks == 2

----------------------------------------------------------------------------
(* AIGenerator: constants and values *)

\* a tool loop that allows one round more (sensitivity check of the round bound)
MAX_ROUNDS_Plus_One == 2 + 1

MAX_ROUNDS == 2

SYSTEM_PROMPT == "<SYSTEM_PROMPT>"

APOLOGY == "I apologize, but I was unable to generate a proper response."

\* Optional[str] arguments: None, or a string (possibly empty)
NoneValue == [some |-> FALSE, val |-> ""]
Some(v) == [some |-> TRUE, val |-> v]

\* Python truthiness of an Optional[str] / Optional[List]
Truthy(o) == o.some /\ Len(o.val) > 0

Queries == {"What is lesson 2 about?"}
Histories == {NoneValue, Some(""), Some("User: hi\nAssistant: hello")}
ToolSchema == [name |-> "search_course_content"]
ToolArgs == {NoneValue, Some(<<>>), Some(<<ToolSchema>>)}
ToolManagers == {"None", "tool_manager"}

\* the argument triples an invocation is started with: every tools/tool_manager
\* pairing, and every kind of history with the tools in use
Invocations ==
    {<<h, tl, tm>> : h \in {Some("User: hi\nAssistant: hello")},
                    tl \in ToolArgs, tm \in ToolManagers}
    \cup {<<h, Some(<<ToolSchema>>), "tool_manager">> : h \in Histories}

\* results and failures of the collaborators
ToolTexts == {"lesson 2 content"}
ToolErrors == {"Tool execution failed"}
ApiErrors == {"API connection failed"}
Texts == {"Answer."}
StopReasons == {"end_turn", "tool_use"}

\* what a call of the invocation gives back: a string, or a raised exception
Str(s) == [kind |-> "str", value |-> s]
Exc(e) == [kind |-> "exception", value |-> e]
NoResult == [kind |-> "none", value |-> ""]

\* content blocks of a response; a tool_use block carries no text attribute
TextBlock(t) == [type |-> "text", text |-> t, id |-> "", name |-> ""]
ToolUseBlock(i, n) == [type |-> "tool_use", text |-> "", id |-> i, name |-> n]

\* the k-th response's block at position p, of kind ty
BlockOf(ty, k, p) ==
    IF ty = "text"
    THEN TextBlock(CHOOSE t \in Texts : TRUE)
    ELSE ToolUseBlock("toolu_" \o ToString(k) \o "_" \o ToString(p),
                      "search_course_content")

BlockKinds == {"text", "tool_use"}

ContentShapes == UNION {[1..n -> BlockKinds] : n \in 0..MaxBlocks}

\* every response the model can give to the k-th call of the invocation
Responses(k) ==
    {[stop_reason |-> sr,
      content |-> [p \in DOMAIN sh |-> BlockOf(sh[p], k, p)]] :
        sr \in StopReasons, sh \in ContentShapes}

NoResponse == [stop_reason |-> "", content |-> <<>>]

\* outcome of client.messages.create: a response, or a raised exception
ModelOutcomes(k) ==
    {[raised |-> FALSE, msg |-> "", response |-> r] : r \in Responses(k)}
    \cup {[raised |-> TRUE, msg |-> m, response |-> NoResponse] : m \in ApiErrors}

\* outcome of tool_manager.execute_tool: a text, or a raised exception
ToolOutcomes ==
    {[raised |-> FALSE, text |-> t] : t \in ToolTexts}
    \cup {[raised |-> TRUE, text |-> m] : m \in ToolErrors}

NoParams == [messages |-> <<>>, system |-> "", has_tools |-> FALSE,
             tools |-> <<>>, tool_choice |-> "None"]

----------------------------------------------------------------------------
(* AIGenerator: pure helpers *)

\* system_content of generate_response
SystemContent(history) ==
    IF Truthy(history)
    THEN SYSTEM_PROMPT \o "\n\nPrevious conversation:\n" \o history.val
    ELSE SYSTEM_PROMPT

\* api_params of generate_response
ApiParams(q, history, tls) ==
    [messages |-> <<[role |-> "user", content |-> q]>>,
     system |-> SystemContent(history),
     has_tools |-> Truthy(tls),
     tools |-> IF Truthy(tls) THEN tls.val ELSE <<>>,
     tool_choice |-> IF Truthy(tls) THEN "auto" ELSE "None"]

\* response.content[0].text
FirstBlockText(response) ==
    IF Len(response.content) = 0 THEN Exc("IndexError")
    ELSE IF response.content[1].type = "text" THEN Str(response.content[1].text)
    ELSE Exc("AttributeError")

_extract_final_response(response) ==
    IF Len(response.content) > 0
    THEN FirstBlockText(response)
    ELSE Str(APOLOGY)

\* a loop that goes on while rounds are left, whatever the response
\* (sensitivity check of the early stop)
_should_continue_execution_Always(response, round, max_rounds) ==
    round < max_rounds

_should_continue_execution(response, round, max_rounds) ==
    IF round >= max_rounds THEN FALSE
    ELSE /\ \E i \in DOMAIN response.content : response.content[i].type = "tool_use"
         /\ response.stop_reason = "tool_use"

\* a system prompt that carries the round note in every round (sensitivity
\* check of the rounds that carry the note)
_build_enhanced_system_prompt_EveryRound(base_system, round_number) ==
    base_system \o "\n\nCurrent execution context: Round "
    \o ToString(round_number)
    \o "/2 - You can use tool results from previous rounds to inform your next tool calls."

_build_enhanced_system_prompt(base_system, round_number) ==
    IF round_number <= 1 THEN base_system
    ELSE base_system \o "\n\nCurrent execution context: Round "
         \o ToString(round_number)
         \o "/2 - You can use tool results from previous rounds to inform your next tool calls."

\* an outcome block tagged with the tool's name instead of the id of the
\* tool_use block (sensitivity check of the correlation of outcomes)
ToolResult_Untagged(block, o) ==
    [type |-> "tool_result",
     tool_use_id |-> block.name,
     content |-> IF o.raised THEN "Tool execution error: " \o o.text ELSE o.text]

\* the tool_result block of one tool invocation
ToolResult(block, o) ==
    [type |-> "tool_result",
     tool_use_id |-> block.id,
     content |-> IF o.raised THEN "Tool execution error: " \o o.text ELSE o.text]

\* messages after the tool results of the round were appended
WithToolResults(msgs, results) ==
    IF Len(results) > 0
    THEN Append(msgs, [role |-> "user", content |-> results])
    ELSE msgs

\* parameters of a round call that leave the tools out (sensitivity check of
\* the tools kept on offer in the loop)
NextParams_Withdrawn(base_params, msgs, round_number) ==
    [messages |-> msgs,
     system |-> _build_enhanced_system_prompt(base_params.system, round_number),
     has_tools |-> FALSE,
     tools |-> <<>>,
     tool_choice |-> "None"]

\* next_params of _execute_single_tool_round
NextParams(base_params, msgs, round_number) ==
    [messages |-> msgs,
     system |-> _build_enhanced_system_prompt(base_params.system, round_number),
     has_tools |-> base_params.has_tools,
     tools |-> base_params.tools,
     tool_choice |-> IF base_params.has_tools THEN "auto" ELSE "None"]

\* fallback parameters that keep the tools of the invocation (sensitivity
\* check of the withdrawal of the tools)
FallbackParams_KeepsTools(base_params, msgs) ==
    [messages |-> msgs,
     system |-> base_params.system,
     has_tools |-> base_params.has_tools,
     tools |-> base_params.tools,
     tool_choice |-> IF base_params.has_tools THEN "auto" ELSE "None"]

\* fallback_params of _handle_tool_error
FallbackParams(base_params, msgs) ==
    [messages |-> msgs,
     system |-> base_params.system,
     has_tools |-> FALSE,
     tools |-> <<>>,
     tool_choice |-> "None"]

\* a round counter that never advances (sensitivity check of termination)
NextRound_Stuck(r) == r

\* current_round += 1
NextRound(r) == r + 1

\* an error text that leaves the round out (sensitivity check of the error text)
ErrorMsg_NoRound(round_number, e) ==
    "I encountered an error while executing tools: " \o e

ErrorMsg(round_number, e) ==
    "I encountered an error while executing tools in round "
    \o ToString(round_number) \o ": " \o e

----------------------------------------------------------------------------
(* SessionManager: configuration, values and pure helpers *)

\* most value of max_history a store is configured with
MaxHistory == 1
\* most store calls of a run
MaxCalls == 2
\* most store calls of a run that follows the critical sections step by step
MaxLockCalls == 3
\* most shutdown calls, and most store calls, of a run that is shut down
MaxShutdowns == 2
MaxStopCalls == 2
\* most store calls of a run whose callers wait for the lock
MaxWaitCalls == 2
\* most value of max_history, and most store calls, of a run with one caller
MaxSeqHistory == 2
MaxSeqCalls == 4

\* session_timeout in clock units: one unit is half of session_timeout_minutes,
\* so that sessions stamped at three different times are alive together
session_timeout == 2

\* A datetime is kept as its distance from the clock: 0 is the present, d is
\* d units ago. The store only ever subtracts a stored datetime from
\* datetime.utcnow() and compares with session_timeout, so every datetime
\* older than the horizon is alike to it and is kept as the horizon.
utcnow == 0
Horizon == session_timeout + 1
Older(d) == IF d < Horizon THEN d + 1 ELSE Horizon

\* a datetime that was d units back, after n more units
Later(n, d) == IF d + n < Horizon THEN d + n ELSE Horizon

Threads == {"t1", "t2"}

\* the threads are alike: a new call is taken by the first idle one
Before(u, t) == u = "t1" /\ t = "t2"

SessionId(n) == "session_" \o ToString(n)

\* the ids a client names: the web layer accepts any id starting with session_
ClientIds == {SessionId(1), SessionId(2)}

\* every id a session can be stored under
AllIds ==
    ClientIds \cup {SessionId(n) : n \in 1..MaxCalls}
              \cup {SessionId(n) : n \in 1..MaxSeqCalls}

\* Optional[str] session ids handed to get_conversation_history
HistoryIds == {Some(i) : i \in ClientIds} \cup {NoneValue, Some("")}

\* the role add_message is called with on its own
Roles == {"user"}

\* Message: its timestamp is written once and read by no store operation
Message(role, content) == [role |-> role, content |-> content]

\* a session record whose timestamps are not those given (sensitivity check
\* of the timestamps of a new session)
SessionInfo_Stale(id, msgs, created, activity) ==
    [session_id |-> id, messages |-> msgs,
     created_at |-> Horizon, last_activity |-> Horizon]

SessionInfo(id, msgs, created, activity) ==
    [session_id |-> id, messages |-> msgs,
     created_at |-> created, last_activity |-> activity]

\* a session that never expires (sensitivity check of the reclamation of
\* idle sessions)
is_expired_Never(session, max_idle_time) == FALSE

\* an expiry test that already fires at the timeout (sensitivity check of the sweep)
is_expired_AtTimeout(session, max_idle_time) ==
    session.last_activity - utcnow >= max_idle_time

\* SessionInfo.is_expired: datetime.utcnow() - self.last_activity > max_idle_time
is_expired(session, max_idle_time) == session.last_activity - utcnow > max_idle_time

\* an access that leaves last_activity alone (sensitivity check of the refresh)
update_activity_Skipped(session) == session

\* SessionInfo.update_activity
update_activity(session) == [session EXCEPT !.last_activity = utcnow]

\* a slice keeping the oldest k messages (sensitivity check of the trimming)
SliceFirst(msgs, k) ==
    IF Len(msgs) <= k THEN msgs ELSE SubSeq(msgs, 1, k)

\* Python's msgs[-k:] for k >= 0: -0 is 0, and msgs[0:] is the whole list
SliceLast(msgs, k) ==
    IF k = 0 THEN msgs
    ELSE IF Len(msgs) <= k THEN msgs
    ELSE SubSeq(msgs, Len(msgs) - k + 1, Len(msgs))

\* a trim that waits for one message more (sensitivity check of the history length)
TrimHistory_Late(msgs, h) ==
    IF Len(msgs) > h * 2 + 1 THEN SliceLast(msgs, h * 2) ELSE msgs

\* a trim down to max_history messages instead of max_history exchanges
\* (sensitivity check of the number of exchanges kept)
TrimHistory_Half(msgs, h) ==
    IF Len(msgs) > h * 2 THEN SliceLast(msgs, h) ELSE msgs

\* lines 93-94 of add_message
TrimHistory(msgs, h) ==
    IF Len(msgs) > h * 2 THEN SliceLast(msgs, h * 2) ELSE msgs

\* a role label left as stored (sensitivity check of the rendering)
Title_Raw(role) == role

\* str.title() on a role: the first letter of every run of letters in upper
\* case, the rest in lower case (add_message takes any string as role)
Title(role) ==
    CASE role = "user" -> "User"
      [] role = "assistant" -> "Assistant"
      [] role = "system" -> "System"
      [] role = "tool_result" -> "Tool_Result"

RECURSIVE JoinLines(_)
JoinLines(lines) ==
    IF Len(lines) = 0 THEN ""
    ELSE IF Len(lines) = 1 THEN lines[1]
    ELSE lines[1] \o "\n" \o JoinLines(Tail(lines))

\* the formatted history returned by get_conversation_history
FormatHistory(msgs) ==
    JoinLines([i \in DOMAIN msgs |-> Title(msgs[i].role) \o ": " \o msgs[i].content])

\* a write that lands in every stored session (sensitivity check of the
\* separation of the sessions)
Put_Everywhere(map, id, info) ==
    [s \in DOMAIN map \cup {id} |-> [info EXCEPT !.session_id = s]]

\* self.sessions[id] = info
Put(map, id, info) ==
    [s \in DOMAIN map \cup {id} |-> IF s = id THEN info ELSE map[s]]

\* a removal that empties the session and keeps its entry (sensitivity check
\* of clear_session)
Remove_MessagesOnly(map, ids) ==
    [s \in DOMAIN map |-> IF s \in ids THEN [map[s] EXCEPT !.messages = <<>>]
                                        ELSE map[s]]

\* del self.sessions[id] for every id of ids
Remove(map, ids) == [s \in DOMAIN map \ ids |-> map[s]]

\* the keys after self.sessions[id] = info: a key already in the dict keeps
\* its place, a new key goes to the end
KeysWith(keys, id) ==
    IF \E k \in DOMAIN keys : keys[k] = id THEN keys ELSE Append(keys, id)

\* the keys after del self.sessions[id] for every id of ids
KeysWithout(keys, ids) == SelectSeq(keys, LAMBDA id : id \notin ids)

\* self.session_counter += 1
NextCounter(c) == c + 1

\* sum(len(session.messages) for session in map.values()), over the ids given
RECURSIVE TotalMessages(_, _)
TotalMessages(map, ids) ==
    IF ids = {} THEN 0
    ELSE LET id == CHOOSE i \in ids : TRUE IN
         Len(map[id].messages) + TotalMessages(map, ids \ {id})

\* get_session_stats, lines 158-163, on the store map
get_session_stats(map) ==
    [total_sessions |-> Cardinality(DOMAIN map),
     total_messages |-> TotalMessages(map, DOMAIN map)]

NoSweep == [removed |-> {}, kept |-> {}]

NoCall == [op |-> "none", sid |-> NoneValue, todo |-> <<>>, call |-> 0]

\* get_session_stats before it has counted
NoTotals == [total_sessions |-> 0, total_messages |-> 0]

\* no invocation shares the generator
IdlePair == dicts = <<>> /\ lists = <<>> /\ inv = <<>> /\ sent = <<>>

IdleGen ==
    /\ query = "" /\ conversation_history = NoneValue /\ tools = NoneValue
    /\ tool_manager = "None" /\ pc = "unused" /\ api_params = NoParams
    /\ messages = <<>> /\ current_round = 0 /\ current_response = NoResponse
    /\ block_index = 0 /\ tool_results = <<>> /\ error = "" /\ result = NoResult
    /\ next_params = NoParams /\ fallback_params = NoParams
    /\ calls = <<>> /\ executed = <<>> /\ responses = <<>>

IdleStore ==
    /\ max_history = 0 /\ sessions = <<>> /\ key_order = <<>> /\ session_counter = 0 /\ lock = "free"
    /\ stop_cleanup = FALSE
    /\ tpc = [t \in Threads |-> "idle"] /\ top = [t \in Threads |-> NoCall]
    /\ ret = [t \in Threads |-> NoneValue]
    /\ cpc = "unused" /\ last_sweep = NoSweep
    /\ ncalls = 0 /\ minted = <<>>
    /\ appended = [i \in AllIds |-> <<>>]
    /\ expired_sessions = {} /\ totals = [t \in Threads |-> NoTotals]
    /\ shutdown_pc = "unused" /\ nshutdowns = 0

\* no sweep under way, no statistics being taken, no shutdown asked for
IdleFine ==
    /\ expired_sessions = {} /\ totals = [t \in Threads |-> NoTotals]
    /\ shutdown_pc = "unused" /\ nshutdowns = 0
    /\ IdlePair

----------------------------------------------------------------------------
(* AIGenerator: the invocation, one step per collaborator call *)

GenInit ==
    /\ IdleStore /\ IdlePair
    /\ query \in Queries
    /\ \E a \in Invocations :
          /\ conversation_history = a[1]
          /\ tools = a[2]
          /\ tool_manager = a[3]
    /\ pc = "start"
    /\ api_params = NoParams
    /\ messages = <<>>
    /\ current_round = 0
    /\ current_response = NoResponse
    /\ block_index = 0
    /\ tool_results = <<>>
    /\ next_params = NoParams
    /\ fallback_params = NoParams
    /\ error = ""
    /\ result = NoResult
    /\ calls = <<>>
    /\ executed = <<>>
    /\ responses = <<>>

\* what a model call gave back, as far as its first content block: the
\* exception raised, or the kind and text of content[0]
Reply(o) ==
    IF o.raised THEN [kind |-> "raised", text |-> o.msg]
    ELSE IF Len(o.response.content) = 0 THEN [kind |-> "empty", text |-> ""]
    ELSE [kind |-> o.response.content[1].type, text |-> o.response.content[1].text]

\* the record of one client.messages.create call: where it was issued, what it
\* was given and what it gave back
Call(kind, round, params, o) ==
    [kind |-> kind, round |-> round, params |-> params, reply |-> Reply(o)]

\* leave generate_response with r: a returned string or a propagating exception
Finish(r) ==
    /\ result' = r
    /\ pc' = IF r.kind = "str" THEN "returned" ELSE "raised"

\* generate_response up to its model call: system_content and api_params are
\* built, and client.messages.create is entered
BuildParams ==
    /\ pc = "start"
    /\ api_params' = ApiParams(query, conversation_history, tools)
    /\ pc' = "initial"
    /\ UNCHANGED <<query, conversation_history, tools, tool_manager, messages,
                   current_round, current_response, block_index, tool_results,
                   next_params, fallback_params, error, result, calls,
                   executed, responses>>
    /\ UNCHANGED <<storeVars, fineVars>>

\* the initial model call answers or raises, and generate_response handles
\* the reply: the text goes to the caller, or the tool loop is set up
InitialCall(o) ==
    /\ pc = "initial"
    /\ calls' = Append(calls, Call("initial", 0, api_params, o))
    /\ responses' = IF o.raised THEN responses ELSE Append(responses, o.response)
    /\ IF o.raised
       THEN /\ Finish(Exc(o.msg))
            /\ UNCHANGED <<messages, current_round, current_response>>
       ELSE IF o.response.stop_reason = "tool_use" /\ tool_manager # "None"
       THEN \* _execute_sequential_tools: set up the loop
            /\ current_round' = 0
            /\ current_response' = o.response
            /\ messages' = api_params.messages
            /\ pc' = "loop"
            /\ UNCHANGED result
       ELSE /\ Finish(FirstBlockText(o.response))
            /\ current_response' = o.response
            /\ UNCHANGED <<messages, current_round>>
    /\ UNCHANGED <<query, conversation_history, tools, tool_manager, api_params,
                   block_index, tool_results, next_params, fallback_params,
                   error, executed>>
    /\ UNCHANGED <<storeVars, fineVars>>

\* the while test, current_round += 1 and the assistant turn of the round
LoopHead ==
    /\ pc = "loop"
    /\ IF current_round < MAX_ROUNDS
       THEN /\ current_round' = NextRound(current_round)
            /\ messages' = Append(messages, [role |-> "assistant",
                                             content |-> current_response.content])
            /\ tool_results' = <<>>
            /\ block_index' = 1
            /\ pc' = "tools"
            /\ UNCHANGED result
       ELSE /\ Finish(_extract_final_response(current_response))
            /\ UNCHANGED <<current_round, messages, tool_results, block_index>>
    /\ UNCHANGED <<query, conversation_history, tools, tool_manager, api_params,
                   current_response, next_params, fallback_params, error,
                   calls, executed, responses>>
    /\ UNCHANGED <<storeVars, fineVars>>

\* a tool loop without the per-tool handler: a raising tool reaches the
\* handler of the round (sensitivity check of the per-tool failure handling)
ExecuteTool_Uncaught(o) ==
    /\ pc = "tools"
    /\ block_index <= Len(current_response.content)
    /\ current_response.content[block_index].type = "tool_use"
    /\ LET b == current_response.content[block_index] IN
       /\ executed' = Append(executed, [round |-> current_round, id |-> b.id,
                                        name |-> b.name, raised |-> o.raised,
                                        text |-> o.text])
       /\ IF o.raised
          THEN /\ error' = o.text
               /\ pc' = "fallback"
               /\ UNCHANGED <<tool_results, block_index>>
          ELSE /\ tool_results' = Append(tool_results, ToolResult(b, o))
               /\ block_index' = block_index + 1
               /\ UNCHANGED <<error, pc>>
    /\ UNCHANGED <<query, conversation_history, tools, tool_manager,
                   api_params, messages, current_round, current_response,
                   next_params, fallback_params, result, calls, responses>>
    /\ UNCHANGED <<storeVars, fineVars>>

\* one tool_use block of the response: execute_tool returns or raises, and a
\* raised exception is caught at once and turned into the block's result
ExecuteTool(o) ==
    /\ pc = "tools"
    /\ block_index <= Len(current_response.content)
    /\ current_response.content[block_index].type = "tool_use"
    /\ LET b == current_response.content[block_index] IN
       /\ executed' = Append(executed, [round |-> current_round, id |-> b.id,
                                        name |-> b.name, raised |-> o.raised,
                                        text |-> o.text])
       /\ tool_results' = Append(tool_results, ToolResult(b, o))
    /\ block_index' = block_index + 1
    /\ UNCHANGED <<query, conversation_history, tools, tool_manager, pc,
                   api_params, messages, current_round, current_response,
                   next_params, fallback_params, error, result, calls,
                   responses>>
    /\ UNCHANGED <<storeVars, fineVars>>

\* a block that is no tool_use block is passed over
SkipBlock ==
    /\ pc = "tools"
    /\ block_index <= Len(current_response.content)
    /\ current_response.content[block_index].type # "tool_use"
    /\ block_index' = block_index + 1
    /\ UNCHANGED <<query, conversation_history, tools, tool_manager, pc,
                   api_params, messages, current_round, current_response,
                   tool_results, next_params, fallback_params, error, result,
                   calls, executed, responses>>
    /\ UNCHANGED <<storeVars, fineVars>>

\* the for loop is over: the round's tool results are appended to messages,
\* next_params is built on that list, and client.messages.create is entered
BuildNextParams ==
    /\ pc = "tools"
    /\ block_index > Len(current_response.content)
    /\ LET msgs == WithToolResults(messages, tool_results) IN
       /\ messages' = msgs
       /\ next_params' = NextParams(api_params, msgs, current_round)
    /\ pc' = "round"
    /\ UNCHANGED <<query, conversation_history, tools, tool_manager, api_params,
                   current_round, current_response, block_index, tool_results,
                   fallback_params, error, result, calls, executed, responses>>
    /\ UNCHANGED <<storeVars, fineVars>>

\* the round's model call answers or raises, and the loop decides on the reply
RoundCall(o) ==
    /\ pc = "round"
    /\ calls' = Append(calls, Call("round", current_round, next_params, o))
    /\ responses' = IF o.raised THEN responses ELSE Append(responses, o.response)
    /\ IF o.raised
       THEN \* except Exception as e: _handle_tool_error
            /\ error' = o.msg
            /\ pc' = "fallback"
            /\ UNCHANGED <<current_response, result>>
       ELSE /\ current_response' = o.response
            /\ error' = error
            /\ IF _should_continue_execution(o.response, current_round, MAX_ROUNDS)
               THEN /\ pc' = "loop"
                    /\ UNCHANGED result
               ELSE Finish(_extract_final_response(o.response))
    /\ UNCHANGED <<query, conversation_history, tools, tool_manager, api_params,
                   messages, current_round, block_index, tool_results,
                   next_params, fallback_params, executed>>
    /\ UNCHANGED <<storeVars, fineVars>>

\* _handle_tool_error up to its model call: fallback_params is built, without
\* tools, and client.messages.create is entered
BuildFallbackParams ==
    /\ pc = "fallback"
    /\ fallback_params' = FallbackParams(api_params, messages)
    /\ pc' = "fallback_call"
    /\ UNCHANGED <<query, conversation_history, tools, tool_manager, api_params,
                   messages, current_round, current_response, block_index,
                   tool_results, next_params, error, result, calls, executed,
                   responses>>
    /\ UNCHANGED <<storeVars, fineVars>>

\* the fallback call answers or raises: its text, or the error message
FallbackCall(o) ==
    /\ pc = "fallback_call"
    /\ calls' = Append(calls, Call("fallback", current_round, fallback_params, o))
    /\ LET t == IF o.raised THEN Exc(o.msg) ELSE FirstBlockText(o.response) IN
       Finish(IF t.kind = "str" THEN t ELSE Str(ErrorMsg(current_round, error)))
    /\ UNCHANGED <<query, conversation_history, tools, tool_manager, api_params,
                   messages, current_round, current_response, block_index,
                   tool_results, next_params, fallback_params, error,
                   executed, responses>>
    /\ UNCHANGED <<storeVars, fineVars>>

\* the model answers the k-th call of the invocation with any outcome
GenNext ==
    \/ BuildParams
    \/ pc = "initial" /\ \E o \in ModelOutcomes(Len(calls) + 1) : InitialCall(o)
    \/ LoopHead
    \/ \E o \in ToolOutcomes : ExecuteTool(o)
    \/ SkipBlock
    \/ BuildNextParams
    \/ pc = "round" /\ \E o \in ModelOutcomes(Len(calls) + 1) : RoundCall(o)
    \/ BuildFallbackParams
    \/ pc = "fallback_call" /\ \E o \in ModelOutcomes(Len(calls) + 1) : FallbackCall(o)

GenSpec == GenInit /\ [][GenNext]_vars

\* every step of the invocation is taken once it is possible: the call chain
\* is sequential code and each collaborator call returns or raises
GenFairSpec == GenSpec /\ WF_vars(GenNext)

Terminated == pc \in {"returned", "raised"}

----------------------------------------------------------------------------
(* AIGenerator: two invocations of generate_response on one instance *)

\* Python's objects are kept by address: a name holds an address, a dict
\* holds strings and addresses, and a statement that mutates an object
\* changes it for every name that holds its address.

Invs == {"a", "b"}

\* self.base_params of __init__, lines 61-65, and the address it is kept at
BaseParams == [model |-> "<model>", temperature |-> "0", max_tokens |-> "800"]
SelfBaseParams == "self.base_params"

\* the arguments of invocation i
QueryOf(i) == "query of " \o i
ToolsOf(i) == i \o ".tools"

\* a dict built by updating self.base_params in place, whoever builds it
\* (sensitivity check of the separation of the invocations)
NewDict_InPlace(i, name) == "self.base_params"

\* a dict display {...} makes a new dict
NewDict(i, name) == i \o "." \o name

\* a list display [...] and list.copy() make a new list
NewList(i, name) == i \o "." \o name

\* {**base, **updates}: the keys of base, overridden and extended by updates
DictWith(base, updates) ==
    [k \in DOMAIN base \cup DOMAIN updates |->
        IF k \in DOMAIN updates THEN updates[k] ELSE base[k]]

\* m[address] = object
Store(m, address, object) ==
    [x \in DOMAIN m \cup {address} |-> IF x = address THEN object ELSE m[x]]

\* what client.messages.create(**d) is given: the dict's entries with the
\* messages list as it is at the time of the call
Request(d) ==
    [model |-> d.model, system |-> d.system, messages |-> lists[d.messages],
     has_tools |-> "tools" \in DOMAIN d]

\* the text the model gives invocation i
PairTextOf(i) == "answer to " \o i

\* the responses the model can give to the k-th call of invocation i: a text,
\* a request for one tool, or a text followed by a request for one tool
PairResponses(i, k) ==
    {[stop_reason |-> "end_turn",
      content |-> <<TextBlock(PairTextOf(i))>>],
     [stop_reason |-> "tool_use",
      content |-> <<ToolUseBlock("toolu_" \o i \o "_" \o ToString(k),
                                 "search_course_content")>>],
     [stop_reason |-> "tool_use",
      content |-> <<TextBlock(PairTextOf(i)),
                    ToolUseBlock("toolu_" \o i \o "_" \o ToString(k),
                                 "search_course_content")>>]}

PairOutcomes(i, k) ==
    {[raised |-> FALSE, msg |-> "", response |-> r] : r \in PairResponses(i, k)}
    \cup {[raised |-> TRUE, msg |-> m, response |-> NoResponse] : m \in ApiErrors}

NoLocals ==
    [pc |-> "start", api_params |-> "", messages |-> "", params |-> "",
     current_round |-> 0, current_response |-> NoResponse,
     block_index |-> 0, tool_results |-> <<>>, error |-> "",
     result |-> NoResult]

PairInit ==
    /\ IdleGen /\ IdleStore
    /\ dicts = [x \in {SelfBaseParams} |-> BaseParams]
    /\ lists = [x \in {ToolsOf(i) : i \in Invs} |-> <<ToolSchema>>]
    /\ inv = [i \in Invs |-> NoLocals]
    /\ sent = [i \in Invs |-> <<>>]

\* invocation i is left with r
PairFinish(i, locals, r) ==
    inv' = [inv EXCEPT ![i] = [locals EXCEPT
               !.result = r,
               !.pc = IF r.kind = "str" THEN "returned" ELSE "raised"]]

PairOthers == UNCHANGED <<genVars, storeVars, lockVars>>

\* generate_response, lines 85-101: api_params is built
PairBuild(i) ==
    /\ inv[i].pc = "start"
    /\ LET d == NewDict(i, "api_params")
           l == NewList(i, "api_params.messages") IN
       /\ lists' = Store(lists, l, <<[role |-> "user", content |-> QueryOf(i)]>>)
       /\ dicts' = Store(dicts, d,
                         DictWith(dicts[SelfBaseParams],
                                  [messages |-> l,
                                   system |-> SystemContent(NoneValue),
                                   tools |-> ToolsOf(i),
                                   tool_choice |-> "auto"]))
       /\ inv' = [inv EXCEPT ![i].api_params = d, ![i].pc = "initial"]
    /\ UNCHANGED sent
    /\ PairOthers

\* generate_response, lines 104-111, and the setup of
\* _execute_sequential_tools, lines 125-128
PairInitialCall(i, o) ==
    /\ inv[i].pc = "initial"
    /\ sent' = [sent EXCEPT ![i] = Append(@, Request(dicts[inv[i].api_params]))]
    /\ IF o.raised
       THEN /\ PairFinish(i, inv[i], Exc(o.msg))
            /\ UNCHANGED lists
       ELSE IF o.response.stop_reason = "tool_use"
       THEN LET l == NewList(i, "messages") IN
            /\ lists' = Store(lists, l, lists[dicts[inv[i].api_params].messages])
            /\ inv' = [inv EXCEPT ![i].messages = l,
                                  ![i].current_round = 0,
                                  ![i].current_response = o.response,
                                  ![i].pc = "loop"]
       ELSE /\ PairFinish(i, [inv[i] EXCEPT !.current_response = o.response],
                          FirstBlockText(o.response))
            /\ UNCHANGED lists
    /\ UNCHANGED dicts
    /\ PairOthers

\* the while test of line 130, current_round += 1 and the assistant turn of
\* the round, line 165
PairLoopHead(i) ==
    /\ inv[i].pc = "loop"
    /\ IF inv[i].current_round < MAX_ROUNDS
       THEN LET turn == [role |-> "assistant",
                         content |-> inv[i].current_response.content] IN
            /\ lists' = [lists EXCEPT ![inv[i].messages] = Append(@, turn)]
            /\ inv' = [inv EXCEPT ![i].current_round = NextRound(@),
                                  ![i].tool_results = <<>>,
                                  ![i].block_index = 1,
                                  ![i].pc = "tools"]
       ELSE /\ PairFinish(i, inv[i],
                          _extract_final_response(inv[i].current_response))
            /\ UNCHANGED lists
    /\ UNCHANGED <<dicts, sent>>
    /\ PairOthers

\* lines 170-189, one tool_use block of the response: execute_tool returns
\* or raises, and either way the block's result is appended to tool_results
PairExecuteTool(i, o) ==
    /\ inv[i].pc = "tools"
    /\ inv[i].block_index <= Len(inv[i].current_response.content)
    /\ inv[i].current_response.content[inv[i].block_index].type = "tool_use"
    /\ LET b == inv[i].current_response.content[inv[i].block_index] IN
       inv' = [inv EXCEPT ![i].tool_results = Append(@, ToolResult(b, o)),
                          ![i].block_index = @ + 1]
    /\ UNCHANGED <<dicts, lists, sent>>
    /\ PairOthers

\* lines 169-170: a block that is no tool_use block is passed over
PairSkipBlock(i) ==
    /\ inv[i].pc = "tools"
    /\ inv[i].block_index <= Len(inv[i].current_response.content)
    /\ inv[i].current_response.content[inv[i].block_index].type # "tool_use"
    /\ inv' = [inv EXCEPT ![i].block_index = @ + 1]
    /\ UNCHANGED <<dicts, lists, sent>>
    /\ PairOthers

\* lines 192-205: the tool results are appended to messages and next_params
\* is built
PairNextParams(i) ==
    /\ inv[i].pc = "tools"
    /\ inv[i].block_index > Len(inv[i].current_response.content)
    /\ LET base_params == dicts[inv[i].api_params]
           d == NewDict(i, "next_params") IN
       /\ lists' = [lists EXCEPT ![inv[i].messages] =
                        WithToolResults(@, inv[i].tool_results)]
       /\ dicts' = Store(dicts, d,
              DictWith(dicts[SelfBaseParams],
                  DictWith([messages |-> inv[i].messages,
                            system |-> _build_enhanced_system_prompt(
                                           base_params.system,
                                           inv[i].current_round)],
                           IF "tools" \in DOMAIN base_params
                           THEN [tools |-> base_params.tools,
                                 tool_choice |-> "auto"]
                           ELSE <<>>)))
       /\ inv' = [inv EXCEPT ![i].params = d, ![i].pc = "round"]
    /\ UNCHANGED sent
    /\ PairOthers

\* the model call of line 208 and the loop's decision, lines 136-148
PairRoundCall(i, o) ==
    /\ inv[i].pc = "round"
    /\ sent' = [sent EXCEPT ![i] = Append(@, Request(dicts[inv[i].params]))]
    /\ IF o.raised
       THEN inv' = [inv EXCEPT ![i].error = o.msg, ![i].pc = "failed"]
       ELSE LET locals == [inv[i] EXCEPT !.current_response = o.response] IN
            IF _should_continue_execution(o.response, inv[i].current_round,
                                          MAX_ROUNDS)
            THEN inv' = [inv EXCEPT ![i] = [locals EXCEPT !.pc = "loop"]]
            ELSE PairFinish(i, locals, _extract_final_response(o.response))
    /\ UNCHANGED <<dicts, lists>>
    /\ PairOthers

\* _handle_tool_error, lines 271-275: fallback_params is built
PairFallbackBuild(i) ==
    /\ inv[i].pc = "failed"
    /\ LET d == NewDict(i, "fallback_params") IN
       /\ dicts' = Store(dicts, d,
                         DictWith(dicts[SelfBaseParams],
                                  [messages |-> inv[i].messages,
                                   system |-> dicts[inv[i].api_params].system]))
       /\ inv' = [inv EXCEPT ![i].params = d, ![i].pc = "fallback"]
    /\ UNCHANGED <<lists, sent>>
    /\ PairOthers

\* _handle_tool_error, lines 277-281: the call without tools, or the error text
PairFallbackCall(i, o) ==
    /\ inv[i].pc = "fallback"
    /\ sent' = [sent EXCEPT ![i] = Append(@, Request(dicts[inv[i].params]))]
    /\ LET t == IF o.raised THEN Exc(o.msg) ELSE FirstBlockText(o.response) IN
       PairFinish(i, inv[i],
                  IF t.kind = "str" THEN t
                  ELSE Str(ErrorMsg(inv[i].current_round, inv[i].error)))
    /\ UNCHANGED <<dicts, lists>>
    /\ PairOthers

\* the two invocations run in any interleaving of their steps
PairNext ==
    \E i \in Invs :
        \/ PairBuild(i)
        \/ \E o \in PairOutcomes(i, Len(sent[i]) + 1) : PairInitialCall(i, o)
        \/ PairLoopHead(i)
        \/ \E o \in ToolOutcomes : PairExecuteTool(i, o)
        \/ PairSkipBlock(i)
        \/ PairNextParams(i)
        \/ \E o \in PairOutcomes(i, Len(sent[i]) + 1) : PairRoundCall(i, o)
        \/ PairFallbackBuild(i)
        \/ \E o \in PairOutcomes(i, Len(sent[i]) + 1) : PairFallbackCall(i, o)

PairSpec == PairInit /\ [][PairNext]_vars

----------------------------------------------------------------------------
(* Properties of generate_response *)

Range(seq) == {seq[i] : i \in DOMAIN seq}

IsToolUse(b) == b.type = "tool_use"

\* the tool_use blocks of a content list, in order
ToolUses(content) == SelectSeq(content, IsToolUse)

\* the tool executions of round n, in order
ExecutedIn(n) ==
    LET InRound(e) == e.round = n IN SelectSeq(executed, InRound)

\* the outcome block the model is to be given for one tool execution
OutcomeOf(e) ==
    [type |-> "tool_result",
     tool_use_id |-> e.id,
     content |-> IF e.raised THEN "Tool execution error: " \o e.text ELSE e.text]

\* C1: whatever the model and the tools do (raise, answer with an empty
\* content list, answer with tool_use blocks only), an invocation that is over
\* has handed a string to its caller and has raised nothing.
C1_NeverRaises == Terminated => result.kind = "str"

\* C2: at most 2 tool-execution batches run and at most 2 round-loop model
\* calls are issued in one invocation (at most 3 calls advertising tools with
\* the initial one); no call carries a round counter above 2, and no tool
\* request of the response to the round-2 call (the third call) is executed.
C2_RoundsBounded ==
    /\ current_round <= 2
    /\ \A e \in Range(executed) : e.round \in 1..2
    /\ \A c \in Range(calls) : c.round <= 2
    /\ Cardinality({i \in DOMAIN calls : calls[i].kind = "round"}) <= 2
    /\ Cardinality({i \in DOMAIN calls : calls[i].params.has_tools}) <= 3
    /\ \A e \in Range(executed) :
          e.id \in {"toolu_" \o ToString(k) \o "_" \o ToString(p) :
                       k \in 1..2, p \in 1..(MaxBlocks + 1)}

\* the model asked for tools in every response, the round-2 response included,
\* and the invocation is over after the initial call and two round calls
C2_Witness ==
    /\ pc = "returned"
    /\ Len(calls) = 3 /\ calls[3].kind = "round" /\ calls[3].round = 2
    /\ calls[3].params.has_tools
    /\ current_response.stop_reason = "tool_use"
    /\ \E b \in Range(current_response.content) : IsToolUse(b)
    /\ \E e \in Range(executed) : e.round = 2

\* C3: every invocation is over after finitely many steps: it issues at most
\* MAX_ROUNDS + 2 model calls (initial, one per round, fallback), runs the
\* tools of at most MAX_ROUNDS responses, and eventually leaves the call chain.
C3_Terminates ==
    /\ [](Len(calls) <= 4 /\ Len(executed) <= 2 * MaxBlocks)
    /\ <>Terminated

\* the longest way out: two rounds, the second round's call fails, fallback
C3_Witness ==
    /\ Terminated
    /\ Len(calls) = 4 /\ calls[4].kind = "fallback"
    /\ current_round = 2

\* C10: a raising tool is recorded as "Tool execution error: <message>" under
\* its tool_use id; every tool_use block of the response is still executed and
\* the round's model call carries all the outcomes, in order; a tool failure
\* neither enters the fallback path nor reaches the caller as an exception.
C10_ToolFailureContained ==
    /\ pc \in {"tools", "round"} =>
          tool_results = [j \in DOMAIN ExecutedIn(current_round) |->
                            OutcomeOf(ExecutedIn(current_round)[j])]
    /\ \A i \in DOMAIN calls :
          calls[i].kind = "round" =>
             LET msgs == calls[i].params.messages
                 ex == ExecutedIn(calls[i].round)
                 k == IF Len(ex) > 0 THEN Len(msgs) - 1 ELSE Len(msgs) IN
             /\ msgs[k].role = "assistant"
             /\ [j \in DOMAIN ToolUses(msgs[k].content) |->
                    ToolUses(msgs[k].content)[j].id]
                = [j \in DOMAIN ex |-> ex[j].id]
             /\ Len(ex) > 0 =>
                  msgs[Len(msgs)] = [role |-> "user",
                                     content |-> [j \in DOMAIN ex |-> OutcomeOf(ex[j])]]
    /\ error \notin ToolErrors
    /\ pc \in {"fallback", "fallback_call"} => error \in ApiErrors
    /\ result.kind = "exception" => result.value \notin ToolErrors

\* a tool raised, the next tool of the same response ran, the round's model
\* call was issued with both outcomes and the invocation returned
C10_Witness ==
    /\ pc = "returned"
    /\ \E i, j \in DOMAIN executed :
          /\ i < j /\ executed[i].round = executed[j].round
          /\ executed[i].raised /\ ~executed[j].raised
          /\ \E c \in Range(calls) :
                /\ c.kind = "round" /\ c.round = executed[i].round
                /\ OutcomeOf(executed[i]) \in Range(c.params.messages[Len(c.params.messages)].content)
                /\ OutcomeOf(executed[j]) \in Range(c.params.messages[Len(c.params.messages)].content)

\* the content of the assistant turn that opened the round of call c
RequestOf(c) ==
    LET msgs == c.params.messages
        k == IF msgs[Len(msgs)].role = "assistant" THEN Len(msgs) ELSE Len(msgs) - 1 IN
    msgs[k].content

\* C11: when a model call of the round loop raises in round r, nothing more is
\* executed and no call advertising tools follows; exactly one fallback call
\* follows and the invocation returns its text, or, when the fallback gives
\* no text either, the error text naming round r with the message of the
\* failure of the round call.
C11_RoundFailureFallsBack ==
    \A i \in DOMAIN calls :
        (calls[i].kind = "round" /\ calls[i].reply.kind = "raised") =>
            LET r == calls[i].round IN
            /\ r \in 1..2
            /\ \A e \in Range(executed) : e.round <= r
            /\ Len(ExecutedIn(r)) = Len(ToolUses(RequestOf(calls[i])))
            /\ \A j \in DOMAIN calls :
                  j > i => /\ j = i + 1
                           /\ calls[j].kind = "fallback"
                           /\ ~calls[j].params.has_tools
            /\ IF i = Len(calls)
               THEN pc \in {"fallback", "fallback_call"}
               ELSE /\ pc = "returned"
                    /\ result =
                         IF calls[i + 1].reply.kind = "text"
                         THEN Str(calls[i + 1].reply.text)
                         ELSE Str("I encountered an error while executing tools in round "
                                  \o ToString(r) \o ": " \o calls[i].reply.text)

\* the call of round 2 raised, the fallback call raised too, and the caller
\* got the error text of round 2
C11_Witness ==
    /\ pc = "returned"
    /\ Len(calls) = 4
    /\ calls[3].kind = "round" /\ calls[3].round = 2 /\ calls[3].reply.kind = "raised"
    /\ calls[4].kind = "fallback" /\ calls[4].reply.kind = "raised"
    /\ result = Str("I encountered an error while executing tools in round 2: "
                    \o "API connection failed")

\* C12: when no tool schemas are supplied (tools is None or empty), whatever
\* the tool_manager argument and the stop_reason of the response, the
\* invocation issues one model call only, executes no tool and returns the
\* text of that call's response unchanged.
C12_NoToolsSingleCall ==
    ~Truthy(tools) =>
        /\ Len(calls) <= 1
        /\ executed = <<>>
        /\ pc \notin {"loop", "tools", "round", "fallback", "fallback_call"}
        /\ (Terminated /\ calls[1].reply.kind = "text") =>
               result = Str(calls[1].reply.text)

\* a response that asks for tools
RequestsTools(response) ==
    /\ response.stop_reason = "tool_use"
    /\ \E b \in Range(response.content) : IsToolUse(b)

\* a response that is a final text answer
FinalText(response) ==
    /\ response.stop_reason = "end_turn"
    /\ Len(response.content) > 0
    /\ response.content[1].type = "text"

\* the tool-execution batches run so far: the assistant turns put before them
Batches == SelectSeq(messages, LAMBDA m : m.role = "assistant")

\* C13: with a tool executor, when the first k responses (k = 1 or 2) ask for
\* tools and response k + 1 is a final text answer, the invocation issues
\* exactly k + 1 model calls, runs exactly k batches, each executing every
\* requested tool once, and returns the text of response k + 1, whether the
\* tools succeed or raise.
C13_RoundsThenAnswer ==
    \A k \in 1..2 :
        (/\ tool_manager # "None"
         /\ Len(responses) >= k + 1
         /\ \A j \in 1..k : RequestsTools(responses[j])
         /\ FinalText(responses[k + 1]))
        => /\ pc = "returned"
           /\ Len(calls) = k + 1
           /\ \A c \in Range(calls) : c.kind # "fallback"
           /\ current_round = k /\ Len(Batches) = k
           /\ \A r \in 1..k :
                 [j \in DOMAIN ExecutedIn(r) |-> ExecutedIn(r)[j].id]
                 = [j \in DOMAIN ToolUses(responses[r].content) |->
                      ToolUses(responses[r].content)[j].id]
           /\ \A e \in Range(executed) : e.round \in 1..k
           /\ result = Str(responses[k + 1].content[1].text)

\* two rounds in which every tool raised, then a final text answer returned
C13_Witness ==
    /\ pc = "returned"
    /\ tool_manager # "None"
    /\ Len(responses) = 3 /\ Len(calls) = 3
    /\ RequestsTools(responses[1]) /\ RequestsTools(responses[2])
    /\ FinalText(responses[3])
    /\ \A e \in Range(executed) : e.raised
    /\ Len(ExecutedIn(1)) = 2 /\ Len(ExecutedIn(2)) >= 1
    /\ result = Str(responses[3].content[1].text)

\* a response with no text block at all
NoText(response) == \A b \in Range(response.content) : b.type # "text"

\* C19: when the response that ends the invocation (the initial response on
\* the path without tool rounds, or the last response of the round loop)
\* carries no text block, the invocation returns the apology string and
\* raises nothing.
C19_ApologyForNoText ==
    (/\ Terminated
     /\ calls # <<>>
     /\ calls[Len(calls)].kind \in {"initial", "round"}
     /\ calls[Len(calls)].reply.kind # "raised"
     /\ NoText(current_response))
    => result = Str(APOLOGY)

\* the message history after r rounds: the user query, then for each round the
\* assistant turn with the response that opened it and, when tools ran, the
\* turn with their outcomes
RECURSIVE HistoryAfter(_)
HistoryAfter(r) ==
    IF r = 0 THEN <<[role |-> "user", content |-> query]>>
    ELSE LET ex == ExecutedIn(r)
             opened == Append(HistoryAfter(r - 1),
                              [role |-> "assistant", content |-> responses[r].content]) IN
         IF Len(ex) > 0
         THEN Append(opened, [role |-> "user",
                              content |-> [j \in DOMAIN ex |-> OutcomeOf(ex[j])]])
         ELSE opened

\* the fallback call, once issued, is the last call of the invocation
FallbackIssued == \E c \in Range(calls) : c.kind = "fallback"

\* C20: the fallback call carries no tool schemas and no tool choice, and its
\* messages are the user query followed by the assistant turn and the
\* tool-result turn of every round so far, the failing round included; once it
\* is issued the invocation is over: no tool is executed and no model call is
\* issued after it, whatever its response holds.
C20_FallbackWithoutTools ==
    /\ [](\A i \in DOMAIN calls :
            calls[i].kind = "fallback" =>
               /\ ~calls[i].params.has_tools
               /\ calls[i].params.tools = <<>>
               /\ calls[i].params.tool_choice = "None"
               /\ calls[i].round \in 1..2
               /\ Len(responses) = calls[i].round
               /\ calls[i].params.messages = HistoryAfter(calls[i].round)
               /\ i = Len(calls)
               /\ pc = "returned")
    /\ [][FallbackIssued => UNCHANGED <<calls, executed, responses>>]_vars

\* round 2 failed after its tools had run, and the fallback response itself
\* opens with a tool_use block: nothing was executed for it and the caller got
\* the error text
C20_Witness ==
    /\ pc = "returned"
    /\ Len(calls) = 4 /\ calls[4].kind = "fallback"
    /\ calls[4].reply.kind = "tool_use"
    /\ Truthy(tools)
    /\ Len(calls[4].params.messages) = 5
    /\ Len(ExecutedIn(2)) > 0
    /\ \A e \in Range(executed) : e.round <= 2
    /\ Len(executed) = Len(ExecutedIn(1)) + Len(ExecutedIn(2))
    /\ result = Str(ErrorMsg(2, "API connection failed"))

\* the ids of a sequence of blocks or of executions, in order
Ids(seq) == [j \in DOMAIN seq |-> seq[j].id]

IsPrefix(a, b) == Len(a) <= Len(b) /\ a = SubSeq(b, 1, Len(a))

\* C21: the tools of a round run in the order of the tool_use blocks of the
\* response that opened the round, and all of them have run when the round's
\* model call is issued; that call carries exactly one outcome per tool_use
\* block, in the same order, each under the id of its block; the tools of a
\* round are those of a response already received, and no tool of an earlier
\* round runs after a tool of a later one.
C21_ToolsInOrder ==
    /\ \A i, j \in DOMAIN executed : i < j => executed[i].round <= executed[j].round
    /\ \A r \in 1..MAX_ROUNDS :
          Len(ExecutedIn(r)) > 0 =>
             /\ Len(responses) >= r /\ Len(calls) >= r
             /\ calls[r].reply.kind # "raised"
             /\ IsPrefix(Ids(ExecutedIn(r)), Ids(ToolUses(responses[r].content)))
    /\ pc \in {"tools", "round"} =>
          /\ Len(calls) = current_round
          /\ Ids(ExecutedIn(current_round))
               = Ids(ToolUses(SubSeq(current_response.content, 1, block_index - 1)))
          /\ [j \in DOMAIN tool_results |-> tool_results[j].tool_use_id]
               = Ids(ExecutedIn(current_round))
    /\ \A i \in DOMAIN calls :
          calls[i].kind = "round" =>
             LET r == calls[i].round
                 ex == ExecutedIn(r)
                 msgs == calls[i].params.messages
                 asked == ToolUses(responses[r].content) IN
             /\ i = r + 1
             /\ Ids(ex) = Ids(asked)
             /\ Len(asked) > 0 =>
                  /\ msgs[Len(msgs)].role = "user"
                  /\ msgs[Len(msgs)].content = [j \in DOMAIN ex |-> OutcomeOf(ex[j])]
                  /\ [j \in DOMAIN asked |-> msgs[Len(msgs)].content[j].tool_use_id]
                       = Ids(asked)

\* two rounds of two tools each: the first tool of round 1 raised, the second
\* returned, and both outcomes went to the round's call in that order before
\* the tools of round 2 ran
C21_Witness ==
    /\ pc = "returned"
    /\ Len(calls) = 3
    /\ Len(ExecutedIn(1)) = 2 /\ Len(ExecutedIn(2)) = 2
    /\ ExecutedIn(1)[1].raised /\ ~ExecutedIn(1)[2].raised
    /\ Ids(ExecutedIn(1)) = <<"toolu_1_1", "toolu_1_2">>
    /\ Ids(ExecutedIn(2)) = <<"toolu_2_1", "toolu_2_2">>
    /\ LET msgs == calls[2].params.messages IN
          [j \in 1..2 |-> msgs[Len(msgs)].content[j].tool_use_id]
          = <<"toolu_1_1", "toolu_1_2">>

\* the text of a response: that of its first text block
TextOf(response) ==
    LET texts == SelectSeq(response.content, LAMBDA b : b.type = "text") IN
    texts[1].text

\* the last model call was a round call, it returned, and the loop has not
\* yet acted on a later round
RoundCallReturned ==
    /\ calls # <<>>
    /\ calls[Len(calls)].kind = "round"
    /\ calls[Len(calls)].reply.kind # "raised"
    /\ Len(calls) = current_round + 1

\* C22: after the model call of a round has returned, another round is
\* started exactly when the response's stop_reason is tool_use, the response
\* holds a tool_use block and the round counter is below MAX_ROUNDS; in every
\* other case the loop stops and the text of the response is returned.
C22_ContinueOrReturn ==
    RoundCallReturned =>
        IF /\ current_response.stop_reason = "tool_use"
           /\ \E b \in Range(current_response.content) : IsToolUse(b)
           /\ current_round < 2
        THEN pc = "loop"
        ELSE /\ pc # "loop"
             /\ ~NoText(current_response) =>
                   /\ pc = "returned"
                   /\ result = Str(TextOf(current_response))

\* the part of C22 that the code meets: the decision itself, and the text
\* returned when the response opens with a text block
C22_ContinueOrReturnFirstText ==
    RoundCallReturned =>
        IF /\ current_response.stop_reason = "tool_use"
           /\ \E b \in Range(current_response.content) : IsToolUse(b)
           /\ current_round < 2
        THEN pc = "loop"
        ELSE /\ pc # "loop"
             /\ (Len(current_response.content) > 0
                 /\ current_response.content[1].type = "text") =>
                   /\ pc = "returned"
                   /\ result = Str(current_response.content[1].text)

\* C26: when the initial response has stop_reason tool_use and no tool
\* executor was supplied, the round loop is not entered: the invocation issues
\* one model call, executes no tool and returns a string, the text of the
\* initial response.
C26_NoExecutorReturnsText ==
    (/\ tool_manager = "None"
     /\ Len(responses) >= 1
     /\ responses[1].stop_reason = "tool_use")
    => /\ Len(calls) = 1 /\ Len(responses) = 1
       /\ executed = <<>>
       /\ messages = <<>> /\ current_round = 0
       /\ pc = "returned" /\ result.kind = "str"
       /\ ~NoText(responses[1]) => result = Str(TextOf(responses[1]))

\* the part of C26 that the code meets: the loop is not entered, and the text
\* is returned when the initial response opens with a text block
C26_NoExecutorNoLoop ==
    (/\ tool_manager = "None"
     /\ Len(responses) >= 1
     /\ responses[1].stop_reason = "tool_use")
    => /\ Len(calls) = 1 /\ Len(responses) = 1
       /\ executed = <<>>
       /\ messages = <<>> /\ current_round = 0
       /\ Terminated
       /\ (Len(responses[1].content) > 0 /\ responses[1].content[1].type = "text")
             => result = Str(responses[1].content[1].text)

\* the history given to a call of the loop: the query, then an assistant turn
\* and a user turn for each round so far
TurnsOf(c) ==
    LET msgs == c.params.messages IN
    /\ Len(msgs) = 1 + 2 * c.round
    /\ msgs[1] = [role |-> "user", content |-> query]
    /\ \A k \in DOMAIN msgs :
          msgs[k].role = IF k % 2 = 1 THEN "user" ELSE "assistant"
    /\ msgs[Len(msgs)].role = "user"

\* C27: every executed round appends an assistant turn and then one user
\* turn with the tool outcomes, so every round call and the fallback call is
\* given a history that starts with the user query, alternates user and
\* assistant turns and ends with a user turn; the history of each call
\* extends that of the call before it.
C27_TurnsAlternate ==
    \A i \in DOMAIN calls :
        /\ calls[i].kind \in {"round", "fallback"} => TurnsOf(calls[i])
        /\ i > 1 => IsPrefix(calls[i - 1].params.messages, calls[i].params.messages)

\* the part of C27 that the code meets: the same, for the rounds opened by a
\* response that holds a tool_use block
C27_TurnsAlternateWithTools ==
    \A i \in DOMAIN calls :
        /\ (/\ calls[i].kind \in {"round", "fallback"}
            /\ \A r \in 1..calls[i].round : Len(ToolUses(responses[r].content)) > 0)
           => TurnsOf(calls[i])
        /\ i > 1 => IsPrefix(calls[i - 1].params.messages, calls[i].params.messages)

\* C28: every model call of the round loop advertises the tool schemas of
\* the initial call with tool_choice auto exactly when tool schemas were
\* supplied to generate_response, and advertises nothing otherwise; the
\* advertised schemas are the same in every round.
C28_SameToolsEveryRound ==
    \A i \in DOMAIN calls :
        calls[i].kind = "round" =>
            /\ calls[i].params.has_tools = Truthy(tools)
            /\ calls[i].params.has_tools = calls[1].params.has_tools
            /\ calls[i].params.tools = calls[1].params.tools
            /\ calls[i].params.tool_choice = calls[1].params.tool_choice
            /\ IF Truthy(tools)
               THEN /\ calls[i].params.tools = tools.val
                    /\ calls[i].params.tool_choice = "auto"
               ELSE /\ calls[i].params.tools = <<>>
                    /\ calls[i].params.tool_choice = "None"

\* the call of round 2 was issued with the schema supplied to the invocation
C28_Witness ==
    /\ Len(calls) = 3
    /\ calls[2].kind = "round" /\ calls[3].kind = "round" /\ calls[3].round = 2
    /\ Truthy(tools)
    /\ calls[3].params.tools = <<ToolSchema>>
    /\ calls[3].params.tool_choice = "auto"
    /\ calls[1].params.tools = <<ToolSchema>>

\* the directive without the round note: the fixed prompt, followed by the
\* conversation so far when a non-empty history was supplied
BaseDirective ==
    IF conversation_history.some /\ conversation_history.val # ""
    THEN "<SYSTEM_PROMPT>\n\nPrevious conversation:\n" \o conversation_history.val
    ELSE "<SYSTEM_PROMPT>"

RoundNote(n) ==
    "\n\nCurrent execution context: Round " \o ToString(n)
    \o "/2 - You can use tool results from previous rounds to inform your next tool calls."

\* C29: the system directive of a call is the base directive followed by the
\* round note (round n of 2) exactly when the call is a round call of round 2
\* or higher; the initial call, the round-1 call and the fallback call carry
\* the base directive alone, which holds the "Previous conversation:" section
\* exactly when a non-empty history was supplied.
C29_RoundNoteFromRoundTwo ==
    \A i \in DOMAIN calls :
        calls[i].params.system =
            IF calls[i].kind = "round" /\ calls[i].round >= 2
            THEN BaseDirective \o RoundNote(calls[i].round)
            ELSE BaseDirective

\* with a history supplied, the round-2 call carried the note and then
\* raised, and the fallback call carried the base directive with the history
C29_Witness ==
    /\ Len(calls) = 4
    /\ Truthy(conversation_history)
    /\ calls[2].kind = "round" /\ calls[2].params.system = calls[1].params.system
    /\ calls[3].kind = "round" /\ calls[3].round = 2
    /\ calls[3].params.system = BaseDirective \o RoundNote(2)
    /\ calls[4].kind = "fallback" /\ calls[4].round = 2
    /\ calls[4].params.system
         = "<SYSTEM_PROMPT>\n\nPrevious conversation:\nUser: hi\nAssistant: hello"

----------------------------------------------------------------------------
(* SessionManager: the store under concurrent callers *)

\* SessionManager.__init__: an empty store, the cleanup thread started,
\* max_history at its most (SeqInit has the smaller values, 0 among them)
StoreInit ==
    /\ IdleGen /\ IdleFine
    /\ max_history = MaxHistory
    /\ sessions = <<>>
    /\ key_order = <<>>
    /\ session_counter = 0
    /\ lock = "free"
    /\ stop_cleanup = FALSE
    /\ tpc = [t \in Threads |-> "idle"]
    /\ top = [t \in Threads |-> NoCall]
    /\ ret = [t \in Threads |-> NoneValue]
    /\ cpc = "waiting"
    /\ last_sweep = NoSweep
    /\ ncalls = 0
    /\ minted = <<>>
    /\ appended = [i \in AllIds |-> <<>>]

\* one clock unit passes: every stored datetime is one unit further back;
\* the clock moves on by any amount in as many steps
Tick ==
    /\ sessions' = [id \in DOMAIN sessions |->
                       [sessions[id] EXCEPT !.created_at = Older(@),
                                            !.last_activity = Older(@)]]
    /\ UNCHANGED <<max_history, key_order, session_counter, lock, stop_cleanup,
                   tpc, top, ret, cpc, last_sweep, ncalls, minted, appended>>
    /\ UNCHANGED <<genVars, fineVars>>

\* a call that enters its critical section whether the lock is free or not
\* (sensitivity check of the mutual exclusion)
Start_Unlocked(t, c, budget) ==
    /\ tpc[t] = "idle"
    /\ \A u \in Threads : Before(u, t) => tpc[u] # "idle"
    /\ ncalls < budget
    /\ lock' = t
    /\ ncalls' = ncalls + 1
    /\ tpc' = [tpc EXCEPT ![t] = "locked"]
    /\ top' = [top EXCEPT ![t] = [c EXCEPT !.call = ncalls + 1]]
    /\ UNCHANGED <<max_history, sessions, key_order, session_counter, stop_cleanup,
                   ret, cpc, last_sweep, minted, appended>>
    /\ UNCHANGED <<genVars, fineVars>>

\* a thread calls a store operation and enters its critical section; a
\* caller blocked on the lock has changed nothing yet, so the call begins
\* when the lock is granted. A run starts at most budget calls.
Start(t, c, budget) ==
    /\ tpc[t] = "idle"
    /\ \A u \in Threads : Before(u, t) => tpc[u] # "idle"
    /\ ncalls < budget
    /\ lock = "free"
    /\ lock' = t
    /\ ncalls' = ncalls + 1
    /\ tpc' = [tpc EXCEPT ![t] = "locked"]
    /\ top' = [top EXCEPT ![t] = [c EXCEPT !.call = ncalls + 1]]
    /\ UNCHANGED <<max_history, sessions, key_order, session_counter, stop_cleanup,
                   ret, cpc, last_sweep, minted, appended>>
    /\ UNCHANGED <<genVars, fineVars>>

Enter(t, c) == Start(t, c, MaxCalls)

\* the texts of a call are told apart by the number of the call
Text(kind) == kind \o ToString(ncalls + 1)

\* the calls of the store's interface, with their arguments
CreateSessionCall == [NoCall EXCEPT !.op = "create_session"]

AddMessageCall(id, role) ==
    [NoCall EXCEPT !.op = "add_message", !.sid = Some(id),
                   !.todo = <<Message(role, Text("m"))>>]

AddExchangeCall(id) ==
    [NoCall EXCEPT !.op = "add_exchange", !.sid = Some(id),
                   !.todo = <<Message("user", Text("q")),
                              Message("assistant", Text("a"))>>]

GetHistoryCall(oid) ==
    [NoCall EXCEPT !.op = "get_conversation_history", !.sid = oid]

ClearSessionCall(id) ==
    [NoCall EXCEPT !.op = "clear_session", !.sid = Some(id)]

CallCreateSession(t) == Enter(t, CreateSessionCall)

CallAddMessage(t, id, role) == Enter(t, AddMessageCall(id, role))

CallAddExchange(t, id) == Enter(t, AddExchangeCall(id))

CallGetHistory(t, oid) == Enter(t, GetHistoryCall(oid))

CallClearSession(t, id) == Enter(t, ClearSessionCall(id))

\* add_exchange, line 100: its second add_message enters the critical section
Acquire(t) ==
    /\ tpc[t] = "wait"
    /\ lock = "free"
    /\ lock' = t
    /\ tpc' = [tpc EXCEPT ![t] = "locked"]
    /\ UNCHANGED <<max_history, sessions, key_order, session_counter, stop_cleanup,
                   top, ret, cpc, last_sweep, ncalls, minted, appended>>
    /\ UNCHANGED <<genVars, fineVars>>

\* a call that returns without giving the lock back (sensitivity check of
\* the release on every exit path)
Leave_KeepsLock(t, r) ==
    /\ lock' = t
    /\ tpc' = [tpc EXCEPT ![t] = "done"]
    /\ ret' = [ret EXCEPT ![t] = r]
    /\ UNCHANGED top

\* the critical section of t is left and its call returns r to the caller
Leave(t, r) ==
    /\ lock' = "free"
    /\ tpc' = [tpc EXCEPT ![t] = "done"]
    /\ ret' = [ret EXCEPT ![t] = r]
    /\ UNCHANGED top

\* the caller has taken the returned value and is ready for its next call
Return(t) ==
    /\ tpc[t] = "done"
    /\ tpc' = [tpc EXCEPT ![t] = "idle"]
    /\ top' = [top EXCEPT ![t] = NoCall]
    /\ ret' = [ret EXCEPT ![t] = NoneValue]
    /\ UNCHANGED <<max_history, sessions, key_order, session_counter, lock, stop_cleanup,
                   cpc, last_sweep, ncalls, minted, appended>>
    /\ UNCHANGED <<genVars, fineVars>>

\* an id numbered after the sessions now stored (sensitivity check of id uniqueness)
NewSessionNumber_FromSize == Cardinality(DOMAIN sessions) + 1

\* create_session, lines 62-63: the number the new id is made of
NewSessionNumber == NextCounter(session_counter)

\* create_session, lines 62-72
CreateSession(t) ==
    /\ tpc[t] = "locked" /\ top[t].op = "create_session"
    /\ LET c == NewSessionNumber
           id == SessionId(c) IN
       /\ session_counter' = c
       /\ sessions' = Put(sessions, id, SessionInfo(id, <<>>, utcnow, utcnow))
       /\ key_order' = KeysWith(key_order, id)
       /\ minted' = Append(minted, [id |-> id, counter |-> c])
       /\ appended' = [appended EXCEPT ![id] = <<>>]
       /\ Leave(t, Some(id))
    /\ UNCHANGED <<max_history, stop_cleanup, cpc, last_sweep, ncalls>>
    /\ UNCHANGED <<genVars, fineVars>>

\* the store after d more clock units: every stored datetime is d further back
Elapse(map, d) ==
    [id \in DOMAIN map |->
        [map[id] EXCEPT !.created_at = Later(d, @), !.last_activity = Later(d, @)]]

\* the clock units between the two readings add_message makes for a session
\* it creates (lines 79 and 36); a session it finds has the clock read once
NewSessionClocks(known) == IF known THEN {0} ELSE 0..Horizon

\* an add_message that takes an expired session for an absent one and
\* starts it afresh (sensitivity check of the expiry left to the sweep)
AddMessage_ExpiresOnAccess(t) ==
    /\ tpc[t] = "locked" /\ top[t].op \in {"add_message", "add_exchange"}
    /\ LET id == top[t].sid.val
           m == top[t].todo[1]
           known == /\ id \in DOMAIN sessions
                    /\ ~is_expired(sessions[id], session_timeout) IN
       /\ \E d \in NewSessionClocks(known) :
             LET session == IF known THEN sessions[id]
                            ELSE SessionInfo(id, <<>>, d, d)
                 added == update_activity([session EXCEPT
                                             !.messages = Append(@, m)]) IN
             sessions' = Put(Elapse(sessions, d), id,
                             [added EXCEPT !.messages = TrimHistory(@, max_history)])
       /\ key_order' = KeysWith(key_order, id)
       /\ appended' = [appended EXCEPT ![id] = IF known THEN Append(@, m) ELSE <<m>>]
    /\ lock' = "free"
    /\ IF Len(top[t].todo) > 1
       THEN /\ top' = [top EXCEPT ![t].todo = Tail(@)]
            /\ tpc' = [tpc EXCEPT ![t] = "wait"]
       ELSE /\ top' = [top EXCEPT ![t] = NoCall]
            /\ tpc' = [tpc EXCEPT ![t] = "idle"]
    /\ UNCHANGED <<max_history, session_counter, stop_cleanup, ret,
                   cpc, last_sweep, ncalls, minted>>
    /\ UNCHANGED <<genVars, fineVars>>

\* add_message, lines 77-95: implicit creation, append, update_activity,
\* trim; add_exchange then goes on to its second add_message. A session made
\* here has the clock read for it at line 79 and again by update_activity at
\* line 36, d units later.
AddMessageAt(t, d) ==
    /\ tpc[t] = "locked" /\ top[t].op \in {"add_message", "add_exchange"}
    /\ LET id == top[t].sid.val
           m == top[t].todo[1]
           known == id \in DOMAIN sessions
           session == IF known THEN sessions[id]
                      ELSE SessionInfo(id, <<>>, d, d)
           added == update_activity([session EXCEPT
                                       !.messages = Append(@, m)]) IN
       /\ sessions' = Put(Elapse(sessions, d), id,
                          [added EXCEPT !.messages = TrimHistory(@, max_history)])
       /\ key_order' = KeysWith(key_order, id)
       /\ appended' = [appended EXCEPT ![id] = IF known THEN Append(@, m) ELSE <<m>>]
    /\ lock' = "free"
    /\ IF Len(top[t].todo) > 1
       THEN /\ top' = [top EXCEPT ![t].todo = Tail(@)]
            /\ tpc' = [tpc EXCEPT ![t] = "wait"]
       ELSE /\ top' = [top EXCEPT ![t] = NoCall]
            /\ tpc' = [tpc EXCEPT ![t] = "idle"]
    /\ UNCHANGED <<max_history, session_counter, stop_cleanup, ret,
                   cpc, last_sweep, ncalls, minted>>
    /\ UNCHANGED <<genVars, fineVars>>

\* add_message with any clock: the readings are as far apart as the clock
\* makes them
AddMessage(t) ==
    /\ tpc[t] = "locked"
    /\ \E d \in NewSessionClocks(top[t].sid.val \in DOMAIN sessions) : AddMessageAt(t, d)

\* get_conversation_history, lines 105-120
GetConversationHistory(t) ==
    /\ tpc[t] = "locked" /\ top[t].op = "get_conversation_history"
    /\ LET oid == top[t].sid IN
       IF ~Truthy(oid) \/ oid.val \notin DOMAIN sessions
       THEN /\ Leave(t, NoneValue)
            /\ UNCHANGED <<sessions, key_order>>
       ELSE IF Len(sessions[oid.val].messages) = 0
       THEN /\ Leave(t, NoneValue)
            /\ UNCHANGED <<sessions, key_order>>
       ELSE /\ sessions' = [sessions EXCEPT ![oid.val] = update_activity(@)]
            /\ UNCHANGED key_order
            /\ Leave(t, Some(FormatHistory(sessions[oid.val].messages)))
    /\ UNCHANGED <<max_history, session_counter, stop_cleanup,
                   cpc, last_sweep, ncalls, minted, appended>>
    /\ UNCHANGED <<genVars, fineVars>>

\* clear_session, lines 124-127
ClearSession(t) ==
    /\ tpc[t] = "locked" /\ top[t].op = "clear_session"
    /\ LET id == top[t].sid.val IN
       /\ sessions' = Remove(sessions, {id})
       /\ key_order' = KeysWithout(key_order, {id})
       /\ appended' = [appended EXCEPT ![id] = <<>>]
    /\ Leave(t, NoneValue)
    /\ UNCHANGED <<max_history, session_counter, stop_cleanup,
                   cpc, last_sweep, ncalls, minted>>
    /\ UNCHANGED <<genVars, fineVars>>

----------------------------------------------------------------------------
(* SessionManager: the cleanup thread *)

\* a cleanup thread that begins a sweep whether the stop flag is set or not
\* (sensitivity check of the end of the sweeps after shutdown)
SweepWake_IgnoresStop ==
    /\ cpc = "waiting"
    /\ cpc' = "wait"
    /\ last_sweep' = NoSweep
    /\ UNCHANGED <<max_history, sessions, key_order, session_counter, lock, stop_cleanup,
                   tpc, top, ret, ncalls, minted, appended>>
    /\ UNCHANGED <<genVars, fineVars>>

\* _stop_cleanup.wait(interval) ran out with the flag clear: a sweep begins
SweepWake ==
    /\ cpc = "waiting" /\ ~stop_cleanup
    /\ cpc' = "wait"
    /\ last_sweep' = NoSweep
    /\ UNCHANGED <<max_history, sessions, key_order, session_counter, lock, stop_cleanup,
                   tpc, top, ret, ncalls, minted, appended>>
    /\ UNCHANGED <<genVars, fineVars>>

\* with self._lock: entered by the cleanup thread
SweepAcquire ==
    /\ cpc = "wait" /\ lock = "free"
    /\ lock' = "cleanup"
    /\ cpc' = "locked"
    /\ UNCHANGED <<max_history, sessions, key_order, session_counter, stop_cleanup,
                   tpc, top, ret, last_sweep, ncalls, minted, appended>>
    /\ UNCHANGED <<genVars, fineVars>>

\* is_expired reads datetime.utcnow() at every call: the clock readings of a
\* scan over n sessions, counted from the start of the scan, never go back
ClockReadings ==
    [n \in 0..Cardinality(AllIds) |->
        {clocks \in [1..n -> 0..Horizon] :
            \A j, k \in 1..n : j < k => clocks[j] <= clocks[k]}]

\* the clock readings of a scan over n sessions
ScanClocks(n) == ClockReadings[n]

\* the clock units a scan with these readings has taken at its last reading
Elapsed(clocks) == IF Len(clocks) = 0 THEN 0 ELSE clocks[Len(clocks)]

\* expired_sessions of lines 140-144: the sessions are visited in the order
\* of the dict, the k-th one at the k-th clock reading
ExpiredSessions(map, keys, clocks) ==
    {keys[k] : k \in {j \in DOMAIN keys :
                         is_expired(Elapse(map, clocks[j])[keys[j]], session_timeout)}}

\* lines 142-147: collect the expired sessions, delete them, leave the
\* critical section and wait again; clocks are the readings of the scan
SweepSessionsAt(clocks) ==
    /\ cpc = "locked"
    /\ LET expired == ExpiredSessions(sessions, key_order, clocks) IN
       /\ sessions' = Remove(Elapse(sessions, Elapsed(clocks)), expired)
       /\ key_order' = KeysWithout(key_order, expired)
       /\ last_sweep' = [removed |-> expired,
                         kept |-> DOMAIN sessions \ expired]
       /\ appended' = [i \in AllIds |->
                          IF i \in expired THEN <<>> ELSE appended[i]]
    /\ lock' = "free"
    /\ cpc' = "waiting"
    /\ UNCHANGED <<max_history, session_counter, stop_cleanup,
                   tpc, top, ret, ncalls, minted>>
    /\ UNCHANGED <<genVars, fineVars>>

\* the sweep with any clock
SweepSessions ==
    /\ cpc = "locked"
    /\ \E clocks \in ScanClocks(Len(key_order)) : SweepSessionsAt(clocks)

StoreNext ==
    \/ Tick
    \/ \E t \in Threads : CallCreateSession(t)
    \/ \E t \in Threads, id \in ClientIds, role \in Roles : CallAddMessage(t, id, role)
    \/ \E t \in Threads, id \in ClientIds : CallAddExchange(t, id)
    \/ \E t \in Threads, oid \in HistoryIds : CallGetHistory(t, oid)
    \/ \E t \in Threads, id \in ClientIds : CallClearSession(t, id)
    \/ \E t \in Threads : Acquire(t)
    \/ \E t \in Threads : Return(t)
    \/ \E t \in Threads : CreateSession(t)
    \/ \E t \in Threads : AddMessage(t)
    \/ \E t \in Threads : GetConversationHistory(t)
    \/ \E t \in Threads : ClearSession(t)
    \/ SweepWake
    \/ SweepAcquire
    \/ SweepSessions

StoreSpec == StoreInit /\ [][StoreNext]_vars

----------------------------------------------------------------------------
(* SessionManager: one caller, the cleanup thread asleep *)

\* the session the single caller works on
SeqId == SessionId(1)

SeqInit ==
    /\ IdleGen /\ IdleFine
    /\ max_history \in 0..MaxSeqHistory
    /\ sessions = <<>>
    /\ key_order = <<>>
    /\ session_counter = 0
    /\ lock = "free"
    /\ stop_cleanup = FALSE
    /\ tpc = [t \in Threads |-> "idle"]
    /\ top = [t \in Threads |-> NoCall]
    /\ ret = [t \in Threads |-> NoneValue]
    /\ cpc = "waiting"
    /\ last_sweep = NoSweep
    /\ ncalls = 0
    /\ minted = <<>>
    /\ appended = [i \in AllIds |-> <<>>]

\* the caller's next call
SeqCall(c) == Start("t1", c, MaxSeqCalls)

SeqNext ==
    \/ SeqCall(CreateSessionCall)
    \/ \E role \in Roles : SeqCall(AddMessageCall(SeqId, role))
    \/ SeqCall(AddExchangeCall(SeqId))
    \/ SeqCall(GetHistoryCall(Some(SeqId)))
    \/ SeqCall(ClearSessionCall(SeqId))
    \/ Acquire("t1")
    \/ Return("t1")
    \/ CreateSession("t1")
    \/ AddMessage("t1")
    \/ GetConversationHistory("t1")
    \/ ClearSession("t1")

SeqSpec == SeqInit /\ [][SeqNext]_vars

----------------------------------------------------------------------------
(* SessionManager: the critical sections step by step *)

GetSessionStatsCall == [NoCall EXCEPT !.op = "get_session_stats"]

LockCall(t, c) == Start(t, c, MaxLockCalls)

\* statistics that count the sessions in one critical section and the
\* messages in another (sensitivity check of the single snapshot)
CountSessions_ReleasesLock(t) ==
    /\ tpc[t] = "locked" /\ top[t].op = "get_session_stats"
    /\ totals' = [totals EXCEPT ![t] =
                     [total_sessions |-> get_session_stats(sessions).total_sessions,
                      total_messages |-> 0]]
    /\ tpc' = [tpc EXCEPT ![t] = "counted"]
    /\ lock' = "free"
    /\ UNCHANGED <<max_history, sessions, key_order, session_counter, stop_cleanup,
                   top, ret, cpc, last_sweep, ncalls, minted, appended>>
    /\ UNCHANGED <<expired_sessions, shutdown_pc, nshutdowns, pairVars>>
    /\ UNCHANGED genVars

\* get_session_stats, line 158: total_sessions = len(self.sessions)
CountSessions(t) ==
    /\ tpc[t] = "locked" /\ top[t].op = "get_session_stats"
    /\ totals' = [totals EXCEPT ![t] =
                     [total_sessions |-> get_session_stats(sessions).total_sessions,
                      total_messages |-> 0]]
    /\ tpc' = [tpc EXCEPT ![t] = "counted"]
    /\ UNCHANGED <<max_history, sessions, key_order, session_counter, lock, stop_cleanup,
                   top, ret, cpc, last_sweep, ncalls, minted, appended>>
    /\ UNCHANGED <<expired_sessions, shutdown_pc, nshutdowns, pairVars>>
    /\ UNCHANGED genVars

\* get_session_stats, lines 159-163: total_messages, and the dict is returned
CountMessages(t) ==
    /\ tpc[t] = "counted"
    /\ totals' = [totals EXCEPT ![t].total_messages =
                     get_session_stats(sessions).total_messages]
    /\ lock' = "free"
    /\ tpc' = [tpc EXCEPT ![t] = "stats_done"]
    /\ UNCHANGED <<max_history, sessions, key_order, session_counter, stop_cleanup, top, ret,
                   cpc, last_sweep, ncalls, minted, appended>>
    /\ UNCHANGED <<expired_sessions, shutdown_pc, nshutdowns, pairVars>>
    /\ UNCHANGED genVars

\* the caller has taken the statistics and is ready for its next call
StatsReturn(t) ==
    /\ tpc[t] = "stats_done"
    /\ tpc' = [tpc EXCEPT ![t] = "idle"]
    /\ top' = [top EXCEPT ![t] = NoCall]
    /\ totals' = [totals EXCEPT ![t] = NoTotals]
    /\ UNCHANGED <<max_history, sessions, key_order, session_counter, lock, stop_cleanup, ret,
                   cpc, last_sweep, ncalls, minted, appended>>
    /\ UNCHANGED <<expired_sessions, shutdown_pc, nshutdowns, pairVars>>
    /\ UNCHANGED genVars

\* a sweep that leaves the critical section after its scan and deletes
\* outside it (sensitivity check of the single critical section of the sweep)
SweepScan_ReleasesLock ==
    /\ cpc = "locked"
    /\ \E clocks \in ScanClocks(Len(key_order)) :
          LET expired == ExpiredSessions(sessions, key_order, clocks) IN
          /\ expired_sessions' = expired
          /\ sessions' = Elapse(sessions, Elapsed(clocks))
          /\ last_sweep' = [removed |-> {}, kept |-> DOMAIN sessions \ expired]
    /\ cpc' = "deleting"
    /\ lock' = "free"
    /\ UNCHANGED <<max_history, key_order, session_counter, stop_cleanup,
                   tpc, top, ret, ncalls, minted, appended>>
    /\ UNCHANGED <<totals, shutdown_pc, nshutdowns, pairVars>>
    /\ UNCHANGED genVars

\* _cleanup_expired_sessions, lines 142-144: the scan collects the expired ids
SweepScan ==
    /\ cpc = "locked"
    /\ \E clocks \in ScanClocks(Len(key_order)) :
          LET expired == ExpiredSessions(sessions, key_order, clocks) IN
          /\ expired_sessions' = expired
          /\ sessions' = Elapse(sessions, Elapsed(clocks))
          /\ last_sweep' = [removed |-> {}, kept |-> DOMAIN sessions \ expired]
    /\ cpc' = "deleting"
    /\ UNCHANGED <<max_history, key_order, session_counter, lock, stop_cleanup,
                   tpc, top, ret, ncalls, minted, appended>>
    /\ UNCHANGED <<totals, shutdown_pc, nshutdowns, pairVars>>
    /\ UNCHANGED genVars

\* lines 146-147: one del self.sessions[session_id] of the second loop, which
\* goes through expired_sessions in the order the scan collected them, the
\* order of the dict
SweepDelete ==
    /\ cpc = "deleting"
    /\ \E k \in DOMAIN key_order :
          LET id == key_order[k] IN
          /\ id \in expired_sessions
          /\ \A j \in 1..(k - 1) : key_order[j] \notin expired_sessions
          /\ sessions' = Remove(sessions, {id})
          /\ key_order' = KeysWithout(key_order, {id})
          /\ expired_sessions' = expired_sessions \ {id}
          /\ last_sweep' = [last_sweep EXCEPT !.removed = @ \cup {id}]
          /\ appended' = [appended EXCEPT ![id] = <<>>]
    /\ UNCHANGED <<max_history, session_counter, lock, stop_cleanup,
                   tpc, top, ret, cpc, ncalls, minted>>
    /\ UNCHANGED <<totals, shutdown_pc, nshutdowns, pairVars>>
    /\ UNCHANGED genVars

\* a sweep that goes back to waiting with the lock still held (sensitivity
\* check of the lock being free during the interval wait)
SweepRelease_KeepsLock ==
    /\ cpc = "deleting" /\ expired_sessions = {}
    /\ cpc' = "waiting"
    /\ UNCHANGED <<max_history, sessions, key_order, session_counter, lock, stop_cleanup,
                   tpc, top, ret, last_sweep, ncalls, minted, appended>>
    /\ UNCHANGED fineVars
    /\ UNCHANGED genVars

\* the with block is left once every collected id is deleted; the thread
\* waits again
SweepRelease ==
    /\ cpc = "deleting" /\ expired_sessions = {}
    /\ lock' = "free"
    /\ cpc' = "waiting"
    /\ UNCHANGED <<max_history, sessions, key_order, session_counter, stop_cleanup,
                   tpc, top, ret, last_sweep, ncalls, minted, appended>>
    /\ UNCHANGED fineVars
    /\ UNCHANGED genVars

\* SessionManager.__init__, as in StoreInit
LockInit == StoreInit

LockNext ==
    \/ Tick
    \/ \E t \in Threads : LockCall(t, CreateSessionCall)
    \/ \E t \in Threads, id \in ClientIds, role \in Roles :
          LockCall(t, AddMessageCall(id, role))
    \/ \E t \in Threads, id \in ClientIds : LockCall(t, GetHistoryCall(Some(id)))
    \/ \E t \in Threads, id \in ClientIds : LockCall(t, ClearSessionCall(id))
    \/ \E t \in Threads : LockCall(t, GetSessionStatsCall)
    \/ \E t \in Threads : Return(t)
    \/ \E t \in Threads : CreateSession(t)
    \/ \E t \in Threads : AddMessage(t)
    \/ \E t \in Threads : GetConversationHistory(t)
    \/ \E t \in Threads : ClearSession(t)
    \/ \E t \in Threads : CountSessions(t)
    \/ \E t \in Threads : CountMessages(t)
    \/ \E t \in Threads : StatsReturn(t)
    \/ SweepWake
    \/ SweepAcquire
    \/ SweepScan
    \/ SweepDelete
    \/ SweepRelease

LockSpec == LockInit /\ [][LockNext]_vars

----------------------------------------------------------------------------
(* SessionManager: shutdown *)

\* SessionManager.__init__ with max_history at its most, the shutdown
\* handler of the application not yet called
StopInit ==
    /\ IdleGen
    /\ max_history = MaxHistory
    /\ sessions = <<>>
    /\ key_order = <<>>
    /\ session_counter = 0
    /\ lock = "free"
    /\ stop_cleanup = FALSE
    /\ tpc = [t \in Threads |-> "idle"]
    /\ top = [t \in Threads |-> NoCall]
    /\ ret = [t \in Threads |-> NoneValue]
    /\ cpc = "waiting"
    /\ last_sweep = NoSweep
    /\ ncalls = 0
    /\ minted = <<>>
    /\ appended = [i \in AllIds |-> <<>>]
    /\ expired_sessions = {} /\ totals = [t \in Threads |-> NoTotals]
    /\ shutdown_pc = "idle" /\ nshutdowns = 0
    /\ IdlePair

\* the caller's next call
StopCall(c) == Start("t1", c, MaxStopCalls)

\* shutdown, lines 168-169: the stop flag is set, and the thread is joined
\* if it is alive
ShutdownCall ==
    /\ shutdown_pc \in {"idle", "returned"}
    /\ nshutdowns < MaxShutdowns
    /\ nshutdowns' = nshutdowns + 1
    /\ stop_cleanup' = TRUE
    /\ shutdown_pc' = IF cpc # "exited" THEN "joining" ELSE "returned"
    /\ UNCHANGED <<max_history, sessions, key_order, session_counter, lock,
                   tpc, top, ret, cpc, last_sweep, ncalls, minted, appended>>
    /\ UNCHANGED <<expired_sessions, totals, pairVars>>
    /\ UNCHANGED genVars

\* line 170: join(timeout=5) returns, the thread having ended or the five
\* seconds having passed
ShutdownJoin ==
    /\ shutdown_pc = "joining"
    /\ shutdown_pc' = "returned"
    /\ UNCHANGED storeVars
    /\ UNCHANGED <<expired_sessions, totals, nshutdowns, pairVars>>
    /\ UNCHANGED genVars

\* line 138: _stop_cleanup.wait returns True, the loop and the thread end
SweepExit ==
    /\ cpc = "waiting" /\ stop_cleanup
    /\ cpc' = "exited"
    /\ UNCHANGED <<max_history, sessions, key_order, session_counter, lock, stop_cleanup,
                   tpc, top, ret, last_sweep, ncalls, minted, appended>>
    /\ UNCHANGED <<genVars, fineVars>>

StopNext ==
    \/ Tick
    \/ \E id \in ClientIds, role \in Roles : StopCall(AddMessageCall(id, role))
    \/ AddMessage("t1")
    \/ SweepWake
    \/ SweepAcquire
    \/ SweepSessions
    \/ SweepExit
    \/ ShutdownCall
    \/ ShutdownJoin

StopSpec == StopInit /\ [][StopNext]_vars

\* the threads run: the cleanup thread takes the lock when it stays free,
\* finishes its sweep and sees the stop flag; a caller inside add_message
\* leaves it; join returns
StopFairSpec ==
    /\ StopSpec
    /\ WF_vars(SweepAcquire) /\ WF_vars(SweepSessions) /\ WF_vars(SweepExit)
    /\ WF_vars(AddMessage("t1"))
    /\ WF_vars(ShutdownJoin)

\* the store is never idle for ever: the clock advances, the interval of the
\* cleanup thread runs out, the thread takes the lock when it stays free and
\* finishes its sweep, and a caller inside add_message leaves it
SweepFairSpec ==
    /\ StopSpec
    /\ WF_vars(Tick) /\ WF_vars(SweepWake)
    /\ WF_vars(SweepAcquire) /\ WF_vars(SweepSessions)
    /\ WF_vars(AddMessage("t1"))

----------------------------------------------------------------------------
(* SessionManager: callers that wait for the lock *)

\* a thread calls a store operation and reaches `with self._lock:`; it has
\* asked for the lock and does not hold it yet
Ask(t, c) ==
    /\ tpc[t] = "idle"
    /\ \A u \in Threads : Before(u, t) => tpc[u] # "idle"
    /\ ncalls < MaxWaitCalls
    /\ ncalls' = ncalls + 1
    /\ tpc' = [tpc EXCEPT ![t] = "wait"]
    /\ top' = [top EXCEPT ![t] = [c EXCEPT !.call = ncalls + 1]]
    /\ UNCHANGED <<max_history, sessions, key_order, session_counter, lock, stop_cleanup,
                   ret, cpc, last_sweep, minted, appended>>
    /\ UNCHANGED <<genVars, fineVars>>

WaitInit == StoreInit

\* the readings of a scan over n sessions when the clock stands still
StillClocks(n) == [k \in 1..n |-> utcnow]

\* every store operation, called on one session id by two threads, and the
\* sweeps, with a clock that stands still: every reading of
\* datetime.utcnow() returns the time of the first, so no stored datetime
\* ages, no session expires and the sweep removes none; no step of the
\* locking reads the clock
WaitNext ==
    \/ \E t \in Threads : Ask(t, CreateSessionCall)
    \/ \E t \in Threads, role \in Roles : Ask(t, AddMessageCall(SeqId, role))
    \/ \E t \in Threads : Ask(t, AddExchangeCall(SeqId))
    \/ \E t \in Threads : Ask(t, GetHistoryCall(Some(SeqId)))
    \/ \E t \in Threads : Ask(t, ClearSessionCall(SeqId))
    \/ \E t \in Threads : Ask(t, GetSessionStatsCall)
    \/ \E t \in Threads : Acquire(t)
    \/ \E t \in Threads : Return(t)
    \/ \E t \in Threads : CreateSession(t)
    \/ \E t \in Threads : AddMessageAt(t, utcnow)
    \/ \E t \in Threads : GetConversationHistory(t)
    \/ \E t \in Threads : ClearSession(t)
    \/ \E t \in Threads : CountSessions(t)
    \/ \E t \in Threads : CountMessages(t)
    \/ \E t \in Threads : StatsReturn(t)
    \/ SweepWake
    \/ SweepAcquire
    \/ SweepSessionsAt(StillClocks(Len(key_order)))

WaitSpec == WaitInit /\ [][WaitNext]_vars

\* fair scheduling: a thread that can go on inside its call does so, and a
\* thread that finds the lock free again and again obtains it; nothing
\* obliges a caller to start a call or the interval to run out
WaitFairSpec ==
    /\ WaitSpec
    /\ \A t \in Threads :
          /\ SF_vars(Acquire(t))
          /\ WF_vars(CreateSession(t)) /\ WF_vars(AddMessageAt(t, utcnow))
          /\ WF_vars(GetConversationHistory(t)) /\ WF_vars(ClearSession(t))
          /\ WF_vars(CountSessions(t)) /\ WF_vars(CountMessages(t))
          /\ WF_vars(Return(t)) /\ WF_vars(StatsReturn(t))
    /\ SF_vars(SweepAcquire)
    /\ WF_vars(SweepSessionsAt(StillClocks(Len(key_order))))

----------------------------------------------------------------------------
(* Properties of the session store *)

\* the two messages of the add_exchange that is store call number n
Question(n) == Message("user", "q" \o ToString(n))
Answer(n) == Message("assistant", "a" \o ToString(n))

\* the add_exchange numbered n has appended its question and not yet its answer
AnswerPending(n) ==
    \E t \in Threads :
        /\ tpc[t] \in {"wait", "locked"}
        /\ top[t].op = "add_exchange" /\ top[t].call = n
        /\ top[t].todo = <<Answer(n)>>

\* the step in which thread t completes the critical section of op on session id
Accesses(t, id, ops) ==
    /\ tpc[t] = "locked" /\ tpc'[t] # "locked"
    /\ top[t].op \in ops
    /\ top[t].sid = Some(id)

\* the step in which the cleanup thread completes the locked section of a sweep
Sweeps == cpc = "locked" /\ cpc' = "waiting"

\* C4: whenever the lock is free, every session holds at most 2 * max_history
\* messages, for every max_history >= 0 the store is configured with.
C4_HistoryBounded ==
    lock = "free" =>
        \A id \in DOMAIN sessions : Len(sessions[id].messages) <= 2 * max_history

\* C5: nothing happens to a session between the two appends of one
\* add_exchange: in the messages appended to a session instance, a question is
\* immediately followed by its own answer (or its answer is still to come),
\* and an answer immediately follows its own question in the same instance.
C5_ExchangeAtomic ==
    \A id \in AllIds : \A i \in DOMAIN appended[id] : \A n \in 1..ncalls :
        /\ appended[id][i] = Question(n) =>
              IF i < Len(appended[id])
              THEN appended[id][i + 1] = Answer(n)
              ELSE AnswerPending(n)
        /\ appended[id][i] = Answer(n) =>
              i > 1 /\ appended[id][i - 1] = Question(n)

\* C6: the stored messages of a session are a contiguous suffix of the
\* messages appended to it since its last creation, in the order in which the
\* add_message calls held the lock: nothing is duplicated, reordered or lost
\* except the oldest messages.
C6_SuffixOfAppended ==
    \A id \in DOMAIN sessions :
        LET stored == sessions[id].messages
            all == appended[id] IN
        /\ Len(stored) <= Len(all)
        /\ stored = SubSeq(all, Len(all) - Len(stored) + 1, Len(all))

\* two callers' messages were interleaved in one session and the oldest was
\* trimmed away
C6_Witness ==
    \E id \in DOMAIN sessions, n \in 1..ncalls :
        /\ Len(appended[id]) = 3
        /\ appended[id][1] = Question(n) /\ appended[id][3] = Answer(n)
        /\ sessions[id].messages = <<appended[id][2], Answer(n)>>

\* C7: the ids returned by create_session are pairwise distinct and carry
\* strictly increasing counter values; the counter is the number of
\* create_session calls so far, so it grows by 1 per call and nothing else
\* (clear_session, a sweep, add_message) changes it.
C7_IdsUnique ==
    /\ session_counter = Len(minted)
    /\ \A i \in DOMAIN minted :
          minted[i].counter = i /\ minted[i].id = SessionId(i)
    /\ \A i, j \in DOMAIN minted :
          i < j => minted[i].id # minted[j].id /\ minted[i].counter < minted[j].counter

\* a second id was minted after the session of the first was removed
C7_Witness ==
    /\ Len(minted) = 2
    /\ minted[1].id \notin DOMAIN sessions
    /\ minted[2].id \in DOMAIN sessions

\* the idle time of the k-th session of the dict when the scan reads the
\* clock for it, the readings being clocks
IdleAt(clocks, k) == Later(clocks[k], sessions[key_order[k]].last_activity)

\* the step is a sweep whose scan read the clock as clocks say: the store
\* holds exactly the sessions that were idle for at most session_timeout when
\* the scan came to them, each with its messages and its timestamps (which
\* lie further back by the time the scan took)
ScannedAt(clocks) ==
    /\ DOMAIN sessions' =
          {key_order[k] : k \in {j \in DOMAIN key_order :
                                    IdleAt(clocks, j) <= session_timeout}}
    /\ \A id \in DOMAIN sessions' :
          /\ sessions'[id].messages = sessions[id].messages
          /\ sessions'[id].session_id = sessions[id].session_id
          /\ sessions'[id].created_at =
                Later(Elapsed(clocks), sessions[id].created_at)
          /\ sessions'[id].last_activity =
                Later(Elapsed(clocks), sessions[id].last_activity)

\* C8: when a sweep leaves its locked section the store holds exactly the
\* sessions whose idle time at the scan (at the clock reading the scan made
\* for the session) did not exceed session_timeout, each with its messages
\* and timestamps unchanged.
C8_SweepRemovesExpired ==
    [][Sweeps =>
         \E clocks \in ScanClocks(Len(key_order)) : ScannedAt(clocks)]_vars

\* a sweep has just removed one session and kept another that is idle for
\* exactly session_timeout
C8_Witness ==
    /\ cpc = "waiting"
    /\ last_sweep.removed # {}
    /\ \E id \in last_sweep.kept :
          /\ id \in DOMAIN sessions
          /\ sessions[id].last_activity = session_timeout

\* an access naming an existing, not yet expired session leaves its
\* last_activity at the time of the access
Refreshes(ops, NonEmptyOnly) ==
    \A t \in Threads, id \in ClientIds :
        (/\ Accesses(t, id, ops)
         /\ id \in DOMAIN sessions
         /\ sessions[id].last_activity - utcnow <= session_timeout
         /\ NonEmptyOnly => Len(sessions[id].messages) > 0)
        => /\ id \in DOMAIN sessions'
           /\ sessions'[id].last_activity = utcnow

\* a sweep keeps every session accessed less than session_timeout before
\* the scan comes to it
SweepSpares ==
    Sweeps =>
        \E clocks \in ScanClocks(Len(key_order)) :
            /\ ScannedAt(clocks)
            /\ \A k \in DOMAIN key_order :
                  IdleAt(clocks, k) < session_timeout
                  => key_order[k] \in DOMAIN sessions'

\* C9 as stated: every access through add_message, add_exchange or
\* get_conversation_history naming an existing session that is not yet
\* expired refreshes its last_activity, also when the session holds no
\* messages, and a sweep less than session_timeout later keeps the session.
C9_EveryAccessRefreshes ==
    [][/\ Refreshes({"add_message", "add_exchange"}, FALSE)
       /\ Refreshes({"get_conversation_history"}, FALSE)
       /\ SweepSpares]_vars

\* C9, corrected: add_message and add_exchange always refresh last_activity,
\* get_conversation_history does so when the session holds at least one
\* message, and a sweep less than session_timeout later keeps the session.
C9_AccessRefreshes ==
    [][/\ Refreshes({"add_message", "add_exchange"}, FALSE)
       /\ Refreshes({"get_conversation_history"}, TRUE)
       /\ SweepSpares]_vars

\* a session older than session_timeout was read, and the sweep kept it
C9_Witness ==
    \E t \in Threads, id \in ClientIds :
        /\ tpc[t] = "done" /\ top[t].op = "get_conversation_history"
        /\ top[t].sid = Some(id) /\ ret[t].some
        /\ cpc = "waiting" /\ id \in last_sweep.kept
        /\ id \in DOMAIN sessions
        /\ sessions[id].created_at = Horizon
        /\ sessions[id].last_activity <= session_timeout

\* the last k elements of a sequence of more than k elements
LastOf(seq, k) == SubSeq(seq, Len(seq) - k + 1, Len(seq))

\* C14: with max_history >= 1, once more than 2 * max_history messages were
\* added to a session by successive add_message calls, the session holds
\* exactly 2 * max_history messages: the last ones added, in the order added.
C14_KeepsNewest ==
    \A id \in DOMAIN sessions :
        (max_history >= 1 /\ Len(appended[id]) > 2 * max_history) =>
            /\ Len(sessions[id].messages) = 2 * max_history
            /\ sessions[id].messages = LastOf(appended[id], 2 * max_history)

\* four add_message calls in a row with max_history = 1: the last two are kept
C14_Witness ==
    /\ max_history = 1
    /\ tpc["t1"] = "idle"
    /\ SeqId \in DOMAIN sessions
    /\ appended[SeqId] = [n \in 1..4 |-> Message("user", "m" \o ToString(n))]
    /\ sessions[SeqId].messages = <<Message("user", "m3"), Message("user", "m4")>>

Min(a, b) == IF a <= b THEN a ELSE b

\* the messages are whole exchanges: each question directly followed by its answer
WholeExchanges(msgs) ==
    /\ Len(msgs) % 2 = 0
    /\ \A i \in 1..(Len(msgs) \div 2) :
          \E n \in 1..ncalls :
              msgs[2 * i - 1] = Question(n) /\ msgs[2 * i] = Answer(n)

\* C15: when a session was filled by m successive add_exchange calls and
\* nothing else, with max_history = h >= 1, it holds exactly the last
\* min(m, h) exchanges, each as its user message directly followed by its
\* assistant message, oldest first.
C15_KeepsNewestExchanges ==
    \A id \in DOMAIN sessions :
        (/\ max_history >= 1
         /\ \A t \in Threads : tpc[t] \in {"idle", "done"}
         /\ WholeExchanges(appended[id]))
        => LET m == Len(appended[id]) \div 2
               k == Min(m, max_history) IN
           /\ Len(sessions[id].messages) = 2 * k
           /\ WholeExchanges(sessions[id].messages)
           /\ sessions[id].messages = LastOf(appended[id], 2 * k)

\* max_history = 2 and three add_exchange calls: four messages are held and
\* both messages of the first exchange are gone
C15_Witness ==
    /\ max_history = 2
    /\ tpc["t1"] = "idle"
    /\ SeqId \in DOMAIN sessions
    /\ appended[SeqId] = <<Question(1), Answer(1), Question(2), Answer(2),
                           Question(3), Answer(3)>>
    /\ sessions[SeqId].messages = <<Question(2), Answer(2), Question(3), Answer(3)>>
    /\ Question(1) \notin Range(sessions[SeqId].messages)
    /\ Answer(1) \notin Range(sessions[SeqId].messages)

\* one message as a line of the history
Line(m) ==
    (IF m.role = "user" THEN "User" ELSE "Assistant") \o ": " \o m.content

\* the lines of msgs, oldest first, with a newline between consecutive lines
RECURSIVE Rendering(_)
Rendering(msgs) ==
    IF Len(msgs) = 1 THEN Line(msgs[1])
    ELSE Rendering(SubSeq(msgs, 1, Len(msgs) - 1)) \o "\n" \o Line(msgs[Len(msgs)])

\* C16: get_conversation_history returns None exactly when its id is None,
\* empty, unknown, or names a session without messages; otherwise it returns
\* the stored messages, oldest first, one "<Role>: <content>" line each,
\* joined by newlines; it never changes which sessions exist or what
\* messages they hold.
C16_HistoryRendering ==
    [][\A t \in Threads :
         (/\ tpc[t] = "locked" /\ tpc'[t] # "locked"
          /\ top[t].op = "get_conversation_history")
         => LET oid == top[t].sid
                held == /\ oid.some /\ oid.val # ""
                        /\ oid.val \in DOMAIN sessions
                        /\ sessions[oid.val].messages # <<>> IN
            /\ tpc'[t] = "done"
            /\ (ret'[t] = NoneValue) <=> ~held
            /\ held => ret'[t] = Some(Rendering(sessions[oid.val].messages))
            /\ DOMAIN sessions' = DOMAIN sessions
            /\ \A id \in DOMAIN sessions :
                  sessions'[id].messages = sessions[id].messages]_vars

\* a history of one exchange was returned as two labelled lines
C16_Witness ==
    \E t \in Threads :
        /\ tpc[t] = "done" /\ top[t].op = "get_conversation_history"
        /\ ret[t] = Some("User: q1\nAssistant: a1")

\* C17: clear_session removes the whole session and nothing else: the id is
\* no longer in the store (so its history is None) and the stats lose one
\* session and its messages; on an id that is not in the store, which is the
\* case of a repeated clear, the store is left exactly as it was.
C17_ClearRemoves ==
    [][\A t \in Threads :
         (/\ tpc[t] = "locked" /\ tpc'[t] # "locked"
          /\ top[t].op = "clear_session")
         => LET id == top[t].sid.val
                had == IF id \in DOMAIN sessions THEN 1 ELSE 0
                held == IF id \in DOMAIN sessions
                        THEN Len(sessions[id].messages) ELSE 0 IN
            /\ tpc'[t] = "done" /\ ret'[t] = NoneValue
            /\ DOMAIN sessions' = DOMAIN sessions \ {id}
            /\ \A other \in DOMAIN sessions' : sessions'[other] = sessions[other]
            /\ get_session_stats(sessions').total_sessions
                 = get_session_stats(sessions).total_sessions - had
            /\ get_session_stats(sessions').total_messages
                 = get_session_stats(sessions).total_messages - held
            /\ id \notin DOMAIN sessions => sessions' = sessions
            /\ UNCHANGED <<session_counter, max_history, stop_cleanup>>]_vars

\* clear_session has returned for the id create_session had returned, while
\* the creating caller still holds that id: the session is gone
C17_Witness ==
    \E t, u \in Threads :
        /\ tpc[t] = "done" /\ top[t].op = "clear_session"
        /\ tpc[u] = "done" /\ top[u].op = "create_session"
        /\ ret[u] = top[t].sid
        /\ top[t].sid.val \notin DOMAIN sessions
        /\ get_session_stats(sessions).total_sessions = 0

\* C18: add_message on an id that is not in the store creates the session:
\* afterwards the session exists under that id with created_at at the clock
\* reading of the creation and last_activity at the reading made after the
\* append, no earlier, and holds exactly the message added; nothing else in
\* the store changes.
C18_ImplicitCreate ==
    [][\A t \in Threads :
         (/\ tpc[t] = "locked" /\ tpc'[t] # "locked"
          /\ top[t].op \in {"add_message", "add_exchange"}
          /\ top[t].sid.val \notin DOMAIN sessions)
         => LET id == top[t].sid.val IN
            /\ DOMAIN sessions' = DOMAIN sessions \cup {id}
            /\ \E d \in 0..Horizon :
                  /\ sessions'[id] = [session_id |-> id,
                                      messages |-> <<top[t].todo[1]>>,
                                      created_at |-> d,
                                      last_activity |-> utcnow]
                  /\ \A other \in DOMAIN sessions :
                        sessions'[other] = Elapse(sessions, d)[other]
            /\ UNCHANGED <<session_counter, max_history>>]_vars

\* the sweep reclaimed a session and add_message on its id has made it anew,
\* holding the one new message
C18_Witness ==
    \E id \in last_sweep.removed :
        /\ id \in DOMAIN sessions
        /\ sessions[id].messages = <<Message("user", "m2")>>
        /\ sessions[id].created_at = utcnow
        /\ sessions[id].last_activity = utcnow
        /\ \A t \in Threads : tpc[t] = "idle"

\* the positions at which a caller, or the cleanup thread, is inside a
\* critical section of the store
InCritical(t) == tpc[t] \in {"locked", "counted"}
Sweeping == cpc \in {"locked", "deleting"}

\* C23: the scan of the sweep and its deletions are one critical section: from
\* the scan to the last deletion the cleanup thread holds the lock and no
\* caller is inside a store operation, so none sees the store with only part
\* of the collected sessions deleted; and every session deleted is expired on
\* the last_activity it has when it is deleted, a refresh made before the
\* sweep took the lock included.
C23_SweepIsOneSection ==
    /\ Sweeping => /\ lock = "cleanup"
                   /\ \A t \in Threads : ~InCritical(t)
    /\ ~Sweeping => expired_sessions = {}
    /\ cpc = "deleting" =>
          /\ \A id \in expired_sessions :
                /\ id \in DOMAIN sessions
                /\ is_expired(sessions[id], session_timeout)
          /\ \A id \in last_sweep.removed : id \notin DOMAIN sessions
          /\ \A id \in last_sweep.kept :
                /\ id \in DOMAIN sessions
                /\ id \notin expired_sessions

\* the sweep has deleted one of the two sessions it collected, and a caller
\* with a call still to make is kept out
C23_Witness ==
    /\ cpc = "deleting" /\ lock = "cleanup"
    /\ Cardinality(expired_sessions) = 1
    /\ Cardinality(last_sweep.removed) = 1
    /\ Cardinality(DOMAIN sessions) = 1
    /\ ncalls < MaxLockCalls
    /\ \A t \in Threads : tpc[t] = "idle"

\* a step of a get_session_stats call of thread t
StatsStep(t) ==
    /\ tpc'[t] # tpc[t]
    /\ top[t].op = "get_session_stats" \/ top'[t].op = "get_session_stats"

\* C25: the dict get_session_stats returns is the number of sessions and the
\* sum of their message counts of the store as it is when the call leaves its
\* critical section, both taken from the same store; the call changes nothing
\* in the store; and with max_history >= 1 the totals of every reachable
\* store satisfy total_messages <= 2 * max_history * total_sessions.
C25_StatsSnapshot ==
    /\ [](\A t \in Threads :
             tpc[t] = "counted" =>
                 totals[t].total_sessions = Cardinality(DOMAIN sessions))
    /\ [](max_history >= 1 =>
             get_session_stats(sessions).total_messages
               <= 2 * max_history * get_session_stats(sessions).total_sessions)
    /\ [][\A t \in Threads :
             /\ StatsStep(t) =>
                   /\ DOMAIN sessions' = DOMAIN sessions
                   /\ \A id \in DOMAIN sessions :
                         sessions'[id].messages = sessions[id].messages
                   /\ sessions' = sessions
                   /\ UNCHANGED <<session_counter, max_history>>
             /\ (tpc[t] = "counted" /\ tpc'[t] = "stats_done") =>
                   /\ totals'[t].total_sessions = Cardinality(DOMAIN sessions)
                   /\ totals'[t].total_messages
                        = TotalMessages(sessions, DOMAIN sessions)]_vars

\* the statistics of a store of one session that holds two messages with
\* max_history 1: the totals meet the bound with equality
C25_Witness ==
    \E t \in Threads :
        /\ tpc[t] = "stats_done"
        /\ max_history = 1
        /\ totals[t] = [total_sessions |-> 1, total_messages |-> 2]
        /\ get_session_stats(sessions) = totals[t]

\* the stores the clock alone makes of map
Aged(map) == {Elapse(map, d) : d \in 0..Horizon}

\* who is inside a critical section of the store
Inside == {t \in Threads : InCritical(t)} \cup (IF Sweeping THEN {"cleanup"} ELSE {})

\* C30: the body of every store operation (create_session, add_message,
\* get_conversation_history, clear_session, get_session_stats) and the scan
\* and the deletions of the sweep run with the lock held by the thread that
\* runs them: at most one thread is inside a critical section at any time,
\* and the session map, the messages, last_activity and the counter change
\* only in a step of the thread that holds the lock.
C30_OneLockForAll ==
    /\ [](/\ Cardinality(Inside) <= 1
          /\ Inside = {lock} \ {"free"})
    /\ [][/\ sessions' \notin Aged(sessions) =>
                \/ lock \in Threads /\ tpc'[lock] # tpc[lock]
                \/ lock = "cleanup" /\ cpc = "deleting"
          /\ session_counter' # session_counter =>
                lock \in Threads /\ tpc'[lock] # tpc[lock]
          /\ \A t \in Threads :
                (InCritical(t) /\ tpc'[t] # tpc[t]) => lock = t
          /\ (Sweeping /\ cpc' # cpc) => lock = "cleanup"]_vars

\* one caller is inside add_message while the cleanup thread has woken and
\* waits for the lock, and the other caller has a call still to make
C30_Witness ==
    /\ lock = "t1" /\ tpc["t1"] = "locked" /\ top["t1"].op = "add_message"
    /\ cpc = "wait"
    /\ tpc["t2"] = "idle" /\ ncalls < MaxLockCalls
    /\ DOMAIN sessions # {}

\* a step of shutdown
ShutdownStep == shutdown_pc' # shutdown_pc

\* C24: once shutdown has set the stop flag it stays set, the cleanup thread
\* begins no sweep and, having finished a sweep under way, ends; shutdown
\* returns; the steps of shutdown change nothing in the store; a shutdown
\* called with the flag already set changes nothing but returns.
C24_ShutdownStops ==
    /\ [][/\ stop_cleanup => stop_cleanup'
          /\ stop_cleanup => ~(cpc = "waiting" /\ cpc' = "wait")
          /\ cpc = "exited" => cpc' = "exited"
          /\ ShutdownStep =>
                /\ stop_cleanup'
                /\ UNCHANGED <<sessions, key_order, session_counter, max_history, lock,
                               cpc, tpc, top, ret>>]_vars
    /\ stop_cleanup ~> cpc = "exited"
    /\ shutdown_pc = "joining" ~> shutdown_pc = "returned"

\* shutdown was called twice after a sweep had removed a session: both calls
\* have returned, the thread has ended and a session is still stored
C24_Witness ==
    /\ nshutdowns = 2 /\ shutdown_pc = "returned"
    /\ cpc = "exited" /\ stop_cleanup
    /\ last_sweep.removed # {}
    /\ DOMAIN sessions # {}

\* C31: the cleanup thread holds the lock only from its acquisition to the
\* end of its scan-and-delete section: while it waits for the next interval
\* to run out, and while it waits for the lock itself, the lock is not its
\* own, and it is free whenever no caller is inside an operation.
C31_LockFreeWhileWaiting ==
    /\ lock = "cleanup" <=> cpc \in {"locked", "deleting"}
    /\ (cpc \in {"waiting", "wait"} /\ \A t \in Threads : ~InCritical(t))
          => lock = "free"

\* after a sweep that removed a session the cleanup thread waits for the next
\* interval while a caller is inside add_message
C31_Witness ==
    /\ cpc = "waiting"
    /\ last_sweep.removed # {}
    /\ \E t \in Threads :
          /\ lock = t /\ tpc[t] = "locked"
          /\ top[t].op = "add_message"

\* session id is stored and k messages were added to it since it was made
StoredWith(id, k) == id \in DOMAIN sessions /\ Len(appended[id]) = k

\* C32: while the store is not shut down, a stored session is eventually
\* removed unless it is accessed again: from every state in which it is
\* stored, a state follows in which it is gone, or a further message was
\* added to it, or shutdown has set the stop flag.
C32_IdleSessionsRemoved ==
    \A id \in ClientIds : \A k \in 0..MaxStopCalls :
        StoredWith(id, k) ~>
            \/ id \notin DOMAIN sessions
            \/ id \in DOMAIN sessions /\ Len(appended[id]) > k
            \/ stop_cleanup

\* every call of the run was made, no shutdown was asked for, and the sweep
\* has emptied the store
C32_Witness ==
    /\ ncalls = MaxStopCalls /\ nshutdowns = 0 /\ ~stop_cleanup
    /\ cpc = "waiting"
    /\ last_sweep.removed # {}
    /\ sessions = <<>>
    /\ \A id \in AllIds : appended[id] = <<>>

\* the clock units the step took between its two clock readings, when it
\* made session A; a step that made no session reads the clock once
StepTime(A) ==
    IF A \notin DOMAIN sessions /\ A \in DOMAIN sessions'
    THEN sessions'[A].created_at - sessions'[A].last_activity
    ELSE 0

\* the sessions other than A, the set of their ids and the id counter are
\* what they were before the step
OthersUntouched(A) ==
    /\ DOMAIN sessions' \ {A} = DOMAIN sessions \ {A}
    /\ \A B \in DOMAIN sessions \ {A} :
          sessions'[B] = Elapse(sessions, StepTime(A))[B]
    /\ session_counter' = session_counter

\* the step in which thread t completes a get_conversation_history
Reads(t) ==
    /\ tpc[t] = "locked" /\ tpc'[t] # "locked"
    /\ top[t].op = "get_conversation_history"

\* C33: a store operation naming session A (add_message, add_exchange,
\* get_conversation_history, clear_session) leaves every other session, the
\* set of the other ids and the id counter unchanged; the message it appends
\* is stored in A and in no other session; get_conversation_history changes
\* nothing in the store but the last_activity of A.
C33_OnlyTheNamedSession ==
    [][\A t \in Threads :
         /\ \A A \in ClientIds :
               /\ Accesses(t, A, {"add_message", "add_exchange",
                                   "get_conversation_history", "clear_session"})
                     => OthersUntouched(A)
               /\ Accesses(t, A, {"add_message", "add_exchange"})
                     => /\ A \in DOMAIN sessions'
                        /\ top[t].todo[1] \in Range(sessions'[A].messages)
                        /\ \A B \in DOMAIN sessions' \ {A} :
                              top[t].todo[1] \notin Range(sessions'[B].messages)
         /\ Reads(t)
               => /\ DOMAIN sessions' = DOMAIN sessions
                  /\ \A id \in DOMAIN sessions :
                        sessions'[id] = [sessions[id] EXCEPT !.last_activity =
                                                       sessions'[id].last_activity]
                  /\ \A id \in DOMAIN sessions :
                        sessions'[id] # sessions[id] => top[t].sid = Some(id)
                  /\ UNCHANGED <<max_history, session_counter, minted, appended>>
      ]_vars

\* a message was appended to one session while another, older session was
\* stored, and the older one still holds its own message only
C33_Witness ==
    \E A, B \in DOMAIN sessions :
        /\ A # B
        /\ sessions[B].last_activity > 0 /\ sessions[A].last_activity = 0
        /\ Len(appended[A]) = 1 /\ Len(appended[B]) = 1
        /\ sessions[A].messages = appended[A]
        /\ sessions[B].messages = appended[B]
        /\ appended[A] # appended[B]

\* the step in which thread t completes a create_session
Creates(t) ==
    /\ tpc[t] = "locked" /\ tpc'[t] # "locked"
    /\ top[t].op = "create_session"

\* the sessions stored before the step are stored after it, as they were
StoredKept ==
    \A id \in DOMAIN sessions : id \in DOMAIN sessions' /\ sessions'[id] = sessions[id]

\* C35: create_session never replaces a stored session: the id it returns
\* names no session stored before the call, whether that session came from
\* create_session or from add_message under an id the caller chose, and
\* every session stored before the call is stored after it with its messages.
C35_CreateNeverReplaces ==
    [][\A t \in Threads :
         Creates(t) => ret'[t].val \notin DOMAIN sessions /\ StoredKept]_vars

\* the part of C35 that holds: while every stored session carries an id that
\* create_session returned, create_session replaces none of them
C35_CreateNeverReplacesMinted ==
    [][\A t \in Threads :
         (Creates(t) /\ DOMAIN sessions \subseteq Range(Ids(minted)))
            => ret'[t].val \notin DOMAIN sessions /\ StoredKept]_vars

\* thread t has asked for the lock and does not hold it
Waiting(t) == tpc[t] = "wait"

\* thread t is inside a critical section
Holding(t) == tpc[t] \in {"locked", "counted"}

\* the call of thread t has returned (or t has not called)
Returned(t) == tpc[t] \in {"done", "stats_done", "idle"}

\* C36: the store cannot deadlock. A thread or the sweep that asks for the
\* lock does not hold it; the lock is held exactly by the thread that is
\* inside a critical section, so it is free after every way out of one and
\* between the two add_message calls of add_exchange; and under fair
\* scheduling every thread that asks for the lock, as every store call does
\* first, obtains it and its call then returns, and every sweep that asks
\* for the lock obtains it and then leaves its section.
C36_NoDeadlock ==
    /\ [](/\ \A t \in Threads : lock = t <=> Holding(t)
          /\ lock = "cleanup" <=> cpc = "locked")
    /\ \A t \in Threads :
          Waiting(t) ~> (Holding(t) /\ <>Returned(t))
    /\ (cpc = "wait") ~> (cpc = "locked" /\ <>(cpc = "waiting"))

\* both callers and the cleanup thread asked for the lock while it was held;
\* now the second add_message of an add_exchange holds it and the others wait
C36_Witness ==
    /\ tpc["t1"] = "locked" /\ top["t1"].op = "add_exchange"
    /\ Len(top["t1"].todo) = 1
    /\ tpc["t2"] = "wait"
    /\ cpc = "wait"

\* session id is stored and idle for more than session_timeout
StoredExpired(id) ==
    id \in DOMAIN sessions /\ is_expired(sessions[id], session_timeout)

\* C37: expiry is enforced by the sweep alone. On a stored session that is
\* idle for more than session_timeout and not yet swept,
\* get_conversation_history returns the rendering of its messages and
\* add_message appends to the messages it holds, and each leaves
\* last_activity at the time of the access; a sweep keeps every session whose
\* last access is at most session_timeout before the scan comes to it; and a
\* session leaves the store only in a sweep or in a clear_session naming it.
C37_ExpiryOnlyBySweep ==
    [][/\ \A t \in Threads, id \in ClientIds :
            /\ (/\ Accesses(t, id, {"get_conversation_history"})
                /\ StoredExpired(id)
                /\ Len(sessions[id].messages) > 0)
                  => /\ ret'[t] = Some(FormatHistory(sessions[id].messages))
                     /\ id \in DOMAIN sessions'
                     /\ sessions'[id].messages = sessions[id].messages
                     /\ sessions'[id].last_activity = utcnow
            /\ (Accesses(t, id, {"add_message", "add_exchange"}) /\ StoredExpired(id))
                  => /\ id \in DOMAIN sessions'
                     /\ sessions'[id].messages =
                           TrimHistory(Append(sessions[id].messages, top[t].todo[1]),
                                       max_history)
                     /\ sessions'[id].created_at = sessions[id].created_at
                     /\ sessions'[id].last_activity = utcnow
       /\ Sweeps =>
             \E clocks \in ScanClocks(Len(key_order)) :
                 \A k \in DOMAIN key_order :
                     IdleAt(clocks, k) <= session_timeout
                        => /\ key_order[k] \in DOMAIN sessions'
                           /\ sessions'[key_order[k]] =
                                 Elapse(sessions, Elapsed(clocks))[key_order[k]]
       /\ \A id \in DOMAIN sessions :
             id \notin DOMAIN sessions'
                => \/ Sweeps
                   \/ \E t \in Threads : Accesses(t, id, {"clear_session"})
      ]_vars

\* a session was left idle for more than session_timeout, a message was then
\* appended to the one it held, and the sweep that came next kept the session
C37_Witness ==
    \E id \in DOMAIN sessions :
        /\ sessions[id].created_at > session_timeout
        /\ sessions[id].last_activity = utcnow
        /\ Len(appended[id]) = 2
        /\ Len(sessions[id].messages) = 2
        /\ cpc = "waiting" /\ last_sweep.kept = {id} /\ last_sweep.removed = {}

----------------------------------------------------------------------------
(* Properties of the generator shared by two invocations *)

\* the objects invocation i holds through its local names
ObjectsOf(i) ==
    LET ds == {inv[i].api_params, inv[i].params} \ {""} IN
    (ds \cup {inv[i].messages} \cup {dicts[d].messages : d \in ds}) \ {""}

\* the tool_use ids of the responses invocation i can be given
ToolUseIdsOf(i) ==
    {"toolu_" \o i \o "_" \o ToString(k) : k \in 1..(MAX_ROUNDS + 1)}

\* m is a turn of invocation i: its query, one of its tool-use turns, or the
\* outcomes of its tools
OwnTurn(i, m) ==
    IF m.role = "assistant"
    THEN \A b \in Range(m.content) :
            \/ b.type = "tool_use" /\ b.id \in ToolUseIdsOf(i)
            \/ b.type = "text" /\ b.text = PairTextOf(i)
    ELSE \/ m = [role |-> "user", content |-> QueryOf(i)]
         \/ /\ m.content # QueryOf(i)
            /\ \A j \in Invs : m.content # QueryOf(j)
            /\ \A b \in Range(m.content) :
                  b.type = "tool_result" /\ b.tool_use_id \in ToolUseIdsOf(i)

\* a step of invocation i
StepOf(i) == inv'[i] # inv[i] \/ sent'[i] # sent[i]

\* C34: two generate_response invocations on one AIGenerator do not
\* interfere. self.base_params is never written; the dicts and lists one
\* invocation holds are held by no other invocation and are not
\* self.base_params; every model call of an invocation is given the model
\* settings of self.base_params and a history that begins with the
\* invocation's own query and holds nothing but its own tool-use turns and
\* tool outcomes; and a step of one invocation changes no object of the other.
C34_InvocationsIndependent ==
    /\ [](/\ dicts[SelfBaseParams] = BaseParams
          /\ \A i, j \in Invs :
                i # j => /\ ObjectsOf(i) \cap ObjectsOf(j) = {}
                         /\ SelfBaseParams \notin ObjectsOf(i)
          /\ \A i \in Invs : \A n \in DOMAIN sent[i] :
                /\ sent[i][n].model = BaseParams.model
                /\ Len(sent[i][n].messages) > 0
                /\ sent[i][n].messages[1] = [role |-> "user", content |-> QueryOf(i)]
                /\ \A m \in Range(sent[i][n].messages) : OwnTurn(i, m))
    /\ [][\A i, j \in Invs :
            (i # j /\ StepOf(i)) =>
                /\ inv'[j] = inv[j] /\ sent'[j] = sent[j]
                /\ \A x \in ObjectsOf(j) :
                      /\ x \in DOMAIN dicts => dicts'[x] = dicts[x]
                      /\ x \in DOMAIN lists => lists'[x] = lists[x]]_vars

\* invocation a waits for its tool, its messages holding its query and its
\* tool-use turn, while invocation b has built the parameters of its
\* first-round call from its tool outcome and has not issued the call yet
C34_Witness ==
    /\ inv["a"].pc = "tools" /\ inv["a"].current_round = 1
    /\ inv["a"].block_index = 1 /\ inv["a"].tool_results = <<>>
    /\ inv["a"].current_response.content[1].type = "tool_use"
    /\ Len(lists[inv["a"].messages]) = 2
    /\ inv["b"].pc = "round" /\ inv["b"].current_round = 1
    /\ Len(sent["b"]) = 1
    /\ Len(lists[inv["b"].messages]) = 3
    /\ dicts[inv["b"].params].messages = inv["b"].messages

\* the keys kept for the dict are the keys of the store, each once
KeysAreSessions ==
    /\ {key_order[k] : k \in DOMAIN key_order} = DOMAIN sessions
    /\ \A j, k \in DOMAIN key_order : j # k => key_order[j] # key_order[k]
====
